---- MODULE Spec2Model ----
(***************************************************************************)
(* A model of the gcache library: the eviction engines (Simple, LRU, LFU,  *)
(* ARC), lazy expiration against the injected clock, and the loading path   *)
(* (Get / GetIFPresent / Refresh through the single-flight group).         *)
(*                                                                         *)
(* Engine operations are pure operators on an engine record c; one action  *)
(* of Spec is one public call of the cache, run to completion.  SpecLoad   *)
(* runs the loading path of several threads step by step.                  *)
(***************************************************************************)
EXTENDS Integers, Sequences, FiniteSets, TLC

\* ------------------------------------------------------------------ bounds
MaxSize == 2        \* capacities 1..MaxSize are built
MaxTime == 2        \* the fake clock is advanced at most MaxTime ticks
MaxFreq == 2        \* an LFU item is hit at most MaxFreq times
NumThreads == 2     \* threads of SpecLoad, one call each

\* ------------------------------------------------------------- vocabulary
TypeSimple == "simple"
TypeLru == "lru"
TypeLfu == "lfu"
TypeArc == "arc"

\* a nil *time.Time / *time.Duration
NoExp == -1
\* a nil interface{} value
NoVal == 0

ErrNil == "nil"
ErrKeyNotFound == "ErrKeyNotFound"
ErrLoader == "LoaderError"
ErrDeserialize == "deserialize"
ErrCanceled == "context canceled"
ErrPanic == "panic"

AllKeys == {"A", "B", "C", "D"}

\* The keys used with an engine: the LRU scenario of the specification needs
\* four keys at capacity 3, the other engines are driven with three.
KeysOf(t) == IF t = TypeLru THEN AllKeys ELSE {"A", "B", "C"}

SizesOf(t) == IF t = TypeLru THEN 1..(MaxSize + 1) ELSE 1..MaxSize

\* The values written under a key.  The engines never look into a value, so
\* only key A is given two (an overwrite is then observable).
ValuesOf(k) == CASE k = "A" -> {1, 9} [] k = "B" -> {2} [] k = "C" -> {3} [] OTHER -> {4}

\* durations handed to SetWithExpire / returned by a LoaderExpireFunc
Durations == {1}

\* ---------------------------------------------------------------- helpers
minInt(a, b) == IF a < b THEN a ELSE b
maxInt(a, b) == IF a > b THEN a ELSE b

EmptyMap == [y \in {} |-> NoVal]
Put(m, k, x) == [y \in DOMAIN m \cup {k} |-> IF y = k THEN x ELSE m[y]]
Del(m, k) == [y \in DOMAIN m \ {k} |-> m[y]]

Without(l, k) == SelectSeq(l, LAMBDA x : x # k)
SeqSet(l) == {l[i] : i \in 1..Len(l)}

KeySeq == <<"A", "B", "C", "D">>

\* The orders in which a Go map over the keys S is ranged.  The eviction
\* scans stop at the first entry they take (evict is only ever called with
\* count 1), so one order per key that may come first gives every outcome.
Orders(S) == {<<k>> \o SelectSeq(KeySeq, LAMBDA x : x \in S /\ x # k) : k \in S}

\* ------------------------------------------------------------------ state
VARIABLES
    tp,          \* CacheBuilder.tp
    size,        \* baseCache.size
    expiration,  \* baseCache.expiration (NoExp: none configured)
    loader,      \* whether baseCache.loaderExpireFunc is set
    timed,       \* the loader was given by LoaderExpireFunc: it may return a duration
    now,         \* the clock
    items,       \* the engine's items map: key -> item
    t1, t2, b1, b2, part,   \* arcCache
    freqList,    \* lfuCache.freqList: sequence of freqEntry
    evictList,   \* lruCache.evictList
    fault,       \* some call panicked
    hits,        \* observer: successful reads of a key since it was inserted
    recent,      \* observer: keys by last touch (Set or read hit), newest first
    scen,        \* observer: steps of the engine's scenario the run has followed
    m, calls,    \* singleflight Group: key -> call, and the calls made
    pc, op, key, val, err, slot, ldr,   \* threads of SpecLoad
    mu,          \* baseCache.mu: the thread that holds the engine lock, or 0
    ctx,         \* per thread: the context of its call was cancelled
    loads        \* observer: loader invocations per key

cfgVars == <<tp, size, expiration, loader, timed>>
engVars == <<items, t1, t2, b1, b2, part, freqList, evictList, fault>>
obsVars == <<hits, recent, scen>>
thrVars == <<m, calls, pc, op, key, val, err, slot, ldr, mu, ctx, loads>>
vars == <<cfgVars, now, engVars, obsVars, thrVars>>

\* --------------------------------------------------------------- the item
\* cacheItem.IsExpired with now = nil: the item's clock is read
\* (variant) an item counts as expired from the instant of its expiration on
IsExpiredAt_instant(item, t) == item.expiration # NoExp /\ item.expiration <= t

\* cacheItem.IsExpired(now) with a time handed in: expiration.Before(*now)
IsExpiredAt(item, t) == item.expiration # NoExp /\ item.expiration < t

IsExpired(item) == IsExpiredAt(item, now)

\* time.Now(), the wall clock.  The clock of the model is the fake clock of
\* clock.go, which starts at its 1984 fixture and moves only by Advance: the
\* wall clock reads later than every instant the fake clock stamps.
time_Now == MaxTime + 2

NewItem(value) == [value |-> value, expiration |-> NoExp, freqElement |-> 0]

\* the engine as one record, so that an operation can be composed of steps
Engine == [items |-> items, t1 |-> t1, t2 |-> t2, b1 |-> b1, b2 |-> b2, part |-> part,
           freqList |-> freqList, evictList |-> evictList,
           fault |-> FALSE, ev |-> <<>>, ad |-> <<>>, pv |-> <<>>]

\* a panic (nil dereference) inside an engine call: the call stops there
Panic(c) == [c EXCEPT !.fault = TRUE]

\* evictedFunc(key, value)
Evicted(c, k, v) == [c EXCEPT !.ev = Append(c.ev, <<k, v>>)]
\* addedFunc(key, value)
Added(c, k, v) == [c EXCEPT !.ad = Append(c.ad, <<k, v>>)]

\* ---------------------------------------------------------------- arcList
arcList_Has(l, k) == k \in SeqSet(l)
\* (variant) the key is appended at the back of the list
arcList_PushFront_back(l, k) == Without(l, k) \o <<k>>
arcList_PushFront(l, k) == <<k>> \o Without(l, k)
\* (variant) the key stays in the list
arcList_Remove_keeps(l, k) == l
arcList_Remove(l, k) == Without(l, k)
arcList_Back(l) == l[Len(l)]
arcList_RemoveTail(l) == SubSeq(l, 1, Len(l) - 1)

\* --------------------------------------------------------------- arcCache
\* (variant) full only once the capacity is exceeded
arcCache_isCacheFull_over(c) == Len(c.t1) + Len(c.t2) > size
arcCache_isCacheFull(c) == Len(c.t1) + Len(c.t2) = size

arcCache_setPart(c, p) == IF arcCache_isCacheFull(c) THEN [c EXCEPT !.part = p] ELSE c

\* arc.go:52-58 (and 119-125): drop the entry of a key popped from T1/T2
arcCache_evictItem(c, old) ==
    IF old \in DOMAIN c.items
    THEN Evicted([c EXCEPT !.items = Del(c.items, old)], old, c.items[old].value)
    ELSE c

arcCache_demoteT1(c) ==
    IF c.t1 = <<>> THEN Panic(c)
    ELSE LET old == arcList_Back(c.t1)
         IN arcCache_evictItem([c EXCEPT !.t1 = arcList_RemoveTail(c.t1),
                                         !.b1 = arcList_PushFront(c.b1, old)], old)

arcCache_demoteT2(c) ==
    IF c.t2 = <<>> THEN Panic(c)
    ELSE LET old == arcList_Back(c.t2)
         IN arcCache_evictItem([c EXCEPT !.t2 = arcList_RemoveTail(c.t2),
                                         !.b2 = arcList_PushFront(c.b2, old)], old)

\* (variant) replace always takes the tail of T1
arcCache_replace_t1(c, k) ==
    IF ~arcCache_isCacheFull(c) THEN c ELSE arcCache_demoteT1(c)

arcCache_replace(c, k) ==
    IF ~arcCache_isCacheFull(c) THEN c
    ELSE IF Len(c.t1) > 0 /\ ((arcList_Has(c.b2, k) /\ Len(c.t1) = c.part) \/ Len(c.t1) > c.part)
         THEN arcCache_demoteT1(c)
         ELSE IF Len(c.t2) > 0 THEN arcCache_demoteT2(c)
              ELSE arcCache_demoteT1(c)

\* arc.go:70-85: the entry is written before the lists are looked at
arcCache_setItem(c, k, value) ==
    LET base == IF k \in DOMAIN c.items THEN [c.items[k] EXCEPT !.value = value]
                ELSE NewItem(value)
        item == IF expiration # NoExp THEN [base EXCEPT !.expiration = now + expiration]
                ELSE base
    IN [c EXCEPT !.items = Put(c.items, k, item)]

\* arc.go:97-103
arcCache_setB1(c, k) ==
    LET c2 == arcCache_setPart(c, minInt(size, c.part + maxInt(Len(c.b2) \div Len(c.b1), 1)))
        c3 == arcCache_replace(c2, k)
    IN IF c3.fault THEN c3
       ELSE [c3 EXCEPT !.b1 = arcList_Remove(c3.b1, k), !.t2 = arcList_PushFront(c3.t2, k)]

\* arc.go:105-111
arcCache_setB2(c, k) ==
    LET c2 == arcCache_setPart(c, maxInt(0, c.part - maxInt(Len(c.b1) \div Len(c.b2), 1)))
        c3 == arcCache_replace(c2, k)
    IN IF c3.fault THEN c3
       ELSE [c3 EXCEPT !.b2 = arcList_Remove(c3.b2, k), !.t2 = arcList_PushFront(c3.t2, k)]

\* arc.go:113-141: a key in none of the four lists
arcCache_setFresh(c, k) ==
    LET total == Len(c.t1) + Len(c.b1) + Len(c.t2) + Len(c.b2)
        c2 == IF arcCache_isCacheFull(c) /\ Len(c.t1) + Len(c.b1) = size
              THEN IF Len(c.t1) < size
                   THEN IF c.b1 = <<>> THEN Panic(c)
                        ELSE arcCache_replace([c EXCEPT !.b1 = arcList_RemoveTail(c.b1)], k)
                   ELSE IF c.t1 = <<>> THEN Panic(c)
                        ELSE arcCache_evictItem([c EXCEPT !.t1 = arcList_RemoveTail(c.t1)],
                                                arcList_Back(c.t1))
              ELSE IF total >= size
                   THEN IF total = 2 * size
                        THEN IF Len(c.b2) > 0
                             THEN arcCache_replace([c EXCEPT !.b2 = arcList_RemoveTail(c.b2)], k)
                             ELSE IF c.b1 = <<>> THEN Panic(c)
                                  ELSE arcCache_replace(
                                           [c EXCEPT !.b1 = arcList_RemoveTail(c.b1)], k)
                        ELSE arcCache_replace(c, k)
                   ELSE c
    IN IF c2.fault THEN c2 ELSE [c2 EXCEPT !.t1 = arcList_PushFront(c2.t1, k)]

arcCache_set(c, k, value) ==
    LET c1 == arcCache_setItem(c, k, value)
        c2 == IF arcList_Has(c1.t1, k) \/ arcList_Has(c1.t2, k) THEN c1
              ELSE IF arcList_Has(c1.b1, k) THEN arcCache_setB1(c1, k)
              ELSE IF arcList_Has(c1.b2, k) THEN arcCache_setB2(c1, k)
              ELSE arcCache_setFresh(c1, k)
    IN Added(c2, k, value)     \* the deferred addedFunc runs on every way out

\* the result of a read: the engine after it, the value and error returned,
\* and whether the hit / miss counter was incremented
Hit(c, v, onLoad) == [c |-> c, value |-> v, err |-> ErrNil,
                      hit |-> IF onLoad THEN 0 ELSE 1, miss |-> 0]
\* (variant) the onLoad test of the miss counter is inverted
Miss_inverted(c, onLoad) == [c |-> c, value |-> NoVal, err |-> ErrKeyNotFound,
                             hit |-> 0, miss |-> IF onLoad THEN 1 ELSE 0]
Miss(c, onLoad) == [c |-> c, value |-> NoVal, err |-> ErrKeyNotFound,
                    hit |-> 0, miss |-> IF onLoad THEN 0 ELSE 1]
Panicked(c) == [c |-> Panic(c), value |-> NoVal, err |-> ErrPanic, hit |-> 0, miss |-> 0]

\* (variant) an expired T2 entry is dropped without a ghost in B2
arcCache_getValueT2_ghostless(c, k, onLoad) ==
    IF arcList_Has(c.t2, k)
    THEN IF k \notin DOMAIN c.items THEN Panicked(c)
         ELSE IF ~IsExpired(c.items[k])
              THEN Hit([c EXCEPT !.t2 = arcList_PushFront(c.t2, k)], c.items[k].value, onLoad)
              ELSE Miss(Evicted([c EXCEPT !.items = Del(c.items, k),
                                          !.t2 = arcList_Remove(c.t2, k)],
                                k, c.items[k].value), onLoad)
    ELSE Miss(c, onLoad)

\* arc.go:175-196: the lookup in T2, reached also after an expired T1 entry
arcCache_getValueT2(c, k, onLoad) ==
    IF arcList_Has(c.t2, k)
    THEN IF k \notin DOMAIN c.items THEN Panicked(c)
         ELSE IF ~IsExpired(c.items[k])
              THEN Hit([c EXCEPT !.t2 = arcList_PushFront(c.t2, k)], c.items[k].value, onLoad)
              ELSE Miss(Evicted([c EXCEPT !.items = Del(c.items, k),
                                          !.t2 = arcList_Remove(c.t2, k),
                                          !.b2 = arcList_PushFront(c.b2, k)],
                                k, c.items[k].value), onLoad)
    ELSE Miss(c, onLoad)

arcCache_getValue(c, k, onLoad) ==
    IF arcList_Has(c.t1, k)
    THEN LET c1 == [c EXCEPT !.t1 = arcList_Remove(c.t1, k)]
         IN IF k \notin DOMAIN c.items THEN Panicked(c1)
            ELSE IF ~IsExpired(c.items[k])
                 THEN Hit([c1 EXCEPT !.t2 = arcList_PushFront(c1.t2, k)],
                          c.items[k].value, onLoad)
                 ELSE arcCache_getValueT2(
                          Evicted([c1 EXCEPT !.items = Del(c1.items, k),
                                             !.b1 = arcList_PushFront(c1.b1, k)],
                                  k, c.items[k].value), k, onLoad)
    ELSE arcCache_getValueT2(c, k, onLoad)

arcCache_remove(c, k) ==
    IF arcList_Has(c.t1, k)
    THEN IF k \notin DOMAIN c.items
         THEN [c |-> Panic([c EXCEPT !.t1 = arcList_Remove(c.t1, k)]), ok |-> FALSE]
         ELSE [c |-> Evicted([c EXCEPT !.t1 = arcList_Remove(c.t1, k),
                                       !.items = Del(c.items, k),
                                       !.b1 = arcList_PushFront(c.b1, k)],
                             k, c.items[k].value),
               ok |-> TRUE]
    ELSE IF arcList_Has(c.t2, k)
    THEN IF k \notin DOMAIN c.items
         THEN [c |-> Panic([c EXCEPT !.t2 = arcList_Remove(c.t2, k)]), ok |-> FALSE]
         ELSE [c |-> Evicted([c EXCEPT !.t2 = arcList_Remove(c.t2, k),
                                       !.items = Del(c.items, k),
                                       !.b2 = arcList_PushFront(c.b2, k)],
                             k, c.items[k].value),
               ok |-> TRUE]
    ELSE [c |-> c, ok |-> FALSE]

\* arcCache.init; part is a field of the cache that init leaves alone
arcCache_init(c) == [c EXCEPT !.items = EmptyMap, !.t1 = <<>>, !.t2 = <<>>, !.b1 = <<>>, !.b2 = <<>>]

\* --------------------------------------------------------------- lfuCache
freqEntry(f, its) == [freq |-> f, items |-> its]

lfuCache_init(c) == [c EXCEPT !.items = EmptyMap, !.freqList = <<freqEntry(0, {})>>]

\* (variant) the item is left in its frequency bucket
lfuCache_removeItem_inBucket(c, k, fe) ==
    Evicted([c EXCEPT !.items = Del(c.items, k)], k,
            IF k \in DOMAIN c.items THEN c.items[k].value ELSE NoVal)

\* lfuCache.removeItem: the item k that sits in bucket fe
lfuCache_removeItem(c, k, fe) ==
    LET v == IF k \in DOMAIN c.items THEN c.items[k].value ELSE NoVal
    IN Evicted([c EXCEPT !.items = Del(c.items, k),
                         !.freqList[fe].items = @ \ {k}], k, v)

RECURSIVE lfuCache_removeItems(_, _, _)
lfuCache_removeItems(c, ks, fe) ==
    IF ks = <<>> THEN c
    ELSE lfuCache_removeItems(lfuCache_removeItem(c, Head(ks), fe), Tail(ks), fe)

\* lfuCache.evict from bucket `entry` on; ord is the order in which the
\* buckets' item maps are ranged
RECURSIVE lfuCache_evictFrom(_, _, _, _)
lfuCache_evictFrom(c, entry, count, ord) ==
    IF count <= 0 \/ entry > Len(c.freqList) THEN c
    ELSE LET its == SelectSeq(ord, LAMBDA k : k \in c.freqList[entry].items)
             n == minInt(count, Len(its))
         IN lfuCache_evictFrom(lfuCache_removeItems(c, SubSeq(its, 1, n), entry),
                               entry + 1, count - n, ord)

\* (variant) the scan starts at the bucket of the highest frequency
lfuCache_evict_last(c, count, ord) == lfuCache_evictFrom(c, Len(c.freqList), count, ord)
lfuCache_evict(c, count, ord) == lfuCache_evictFrom(c, 1, count, ord)

lfuCache_set(c, k, value, ord) ==
    LET c1 == IF k \in DOMAIN c.items
              THEN [c EXCEPT !.items[k].value = value]
              ELSE LET c0 == IF Cardinality(DOMAIN c.items) >= size
                             THEN lfuCache_evict(c, 1, ord) ELSE c
                   IN [c0 EXCEPT !.freqList[1].items = @ \cup {k},
                                 !.items = Put(c0.items, k,
                                               [NewItem(value) EXCEPT !.freqElement = 1])]
        c2 == IF expiration # NoExp
              THEN [c1 EXCEPT !.items[k].expiration = now + expiration] ELSE c1
    IN Added(c2, k, value)

\* (variant) the bucket made for the item skips a frequency
lfuCache_increment_skips(c, k) ==
    LET cur == c.items[k].freqElement
        nextFreq == c.freqList[cur].freq + 2
        c1 == [c EXCEPT !.freqList[cur].items = @ \ {k}]
        c2 == IF cur = Len(c1.freqList)
              THEN [c1 EXCEPT !.freqList = Append(c1.freqList, freqEntry(nextFreq, {}))]
              ELSE c1
    IN [c2 EXCEPT !.freqList[cur + 1].items = @ \cup {k},
                  !.items[k].freqElement = cur + 1]

lfuCache_increment(c, k) ==
    LET cur == c.items[k].freqElement
        nextFreq == c.freqList[cur].freq + 1
        c1 == [c EXCEPT !.freqList[cur].items = @ \ {k}]
        c2 == IF cur = Len(c1.freqList)
              THEN [c1 EXCEPT !.freqList = Append(c1.freqList, freqEntry(nextFreq, {}))]
              ELSE c1
    IN [c2 EXCEPT !.freqList[cur + 1].items = @ \cup {k},
                  !.items[k].freqElement = cur + 1]

lfuCache_getValue(c, k, onLoad) ==
    IF k \in DOMAIN c.items
    THEN IF ~IsExpired(c.items[k])
         THEN Hit(lfuCache_increment(c, k), c.items[k].value, onLoad)
         ELSE Miss(lfuCache_removeItem(c, k, c.items[k].freqElement), onLoad)
    ELSE Miss(c, onLoad)

lfuCache_remove(c, k) ==
    IF k \in DOMAIN c.items
    THEN [c |-> lfuCache_removeItem(c, k, c.items[k].freqElement), ok |-> TRUE]
    ELSE [c |-> c, ok |-> FALSE]

\* ------------------------------------------------------------ SimpleCache
SimpleCache_init(c) == [c EXCEPT !.items = EmptyMap]

\* (variant) the entry is reported removed and left in the map
SimpleCache_remove_stays(c, k) ==
    IF k \in DOMAIN c.items
    THEN [c |-> Evicted(c, k, c.items[k].value), ok |-> TRUE]
    ELSE [c |-> c, ok |-> FALSE]

SimpleCache_remove(c, k) ==
    IF k \in DOMAIN c.items
    THEN [c |-> Evicted([c EXCEPT !.items = Del(c.items, k)], k, c.items[k].value),
          ok |-> TRUE]
    ELSE [c |-> c, ok |-> FALSE]

RECURSIVE SimpleCache_removeAll(_, _)
SimpleCache_removeAll(c, ks) ==
    IF ks = <<>> THEN c
    ELSE SimpleCache_removeAll(SimpleCache_remove(c, ks[Len(ks)]).c, SubSeq(ks, 1, Len(ks) - 1))

\* (variant) the eviction scan takes only entries whose expiration has passed
SimpleCache_evictable_passed(item) == item.expiration # NoExp /\ now > item.expiration

\* simple.go:106: what the eviction scan takes
SimpleCache_evictable(item) == item.expiration = NoExp \/ now > item.expiration

\* SimpleCache.evict: ord is the order in which the items map is ranged; the
\* removals are deferred, so they run last-found first
SimpleCache_evict(c, count, ord) ==
    LET found == SelectSeq(ord, LAMBDA k : k \in DOMAIN c.items
                                           /\ SimpleCache_evictable(c.items[k]))
    IN SimpleCache_removeAll(c, SubSeq(found, 1, minInt(count, Len(found))))

\* (variant) the size is compared without the test that it is positive
SimpleCache_set_sized(c, k, value, ord) ==
    LET c1 == IF k \in DOMAIN c.items
              THEN [c EXCEPT !.items[k].value = value]
              ELSE LET c0 == IF Cardinality(DOMAIN c.items) >= size
                             THEN SimpleCache_evict(c, 1, ord) ELSE c
                   IN [c0 EXCEPT !.items = Put(c0.items, k, NewItem(value))]
        c2 == IF expiration # NoExp
              THEN [c1 EXCEPT !.items[k].expiration = now + expiration] ELSE c1
    IN Added(c2, k, value)

\* (variant) overwriting a resident key reports its old value as evicted
SimpleCache_set_evicts(c, k, value, ord) ==
    LET c1 == IF k \in DOMAIN c.items
              THEN Evicted([c EXCEPT !.items[k].value = value], k, c.items[k].value)
              ELSE LET c0 == IF Cardinality(DOMAIN c.items) >= size /\ size > 0
                             THEN SimpleCache_evict(c, 1, ord) ELSE c
                   IN [c0 EXCEPT !.items = Put(c0.items, k, NewItem(value))]
        c2 == IF expiration # NoExp
              THEN [c1 EXCEPT !.items[k].expiration = now + expiration] ELSE c1
    IN Added(c2, k, value)

SimpleCache_set(c, k, value, ord) ==
    LET c1 == IF k \in DOMAIN c.items
              THEN [c EXCEPT !.items[k].value = value]
              ELSE LET c0 == IF Cardinality(DOMAIN c.items) >= size /\ size > 0
                             THEN SimpleCache_evict(c, 1, ord) ELSE c
                   IN [c0 EXCEPT !.items = Put(c0.items, k, NewItem(value))]
        c2 == IF expiration # NoExp
              THEN [c1 EXCEPT !.items[k].expiration = now + expiration] ELSE c1
    IN Added(c2, k, value)

\* (variant) an expired entry is reported missing and left in the map
SimpleCache_getValue_keeps(c, k, onLoad) ==
    IF k \in DOMAIN c.items /\ ~IsExpired(c.items[k])
    THEN Hit(c, c.items[k].value, onLoad)
    ELSE Miss(c, onLoad)

SimpleCache_getValue(c, k, onLoad) ==
    IF k \in DOMAIN c.items
    THEN IF ~IsExpired(c.items[k])
         THEN Hit(c, c.items[k].value, onLoad)
         ELSE Miss(SimpleCache_remove(c, k).c, onLoad)
    ELSE Miss(c, onLoad)

\* --------------------------------------------------------------- lruCache
\* The LRU engine is described by the specification only: a recency list,
\* most recently used at the front.
lruCache_init(c) == [c EXCEPT !.items = EmptyMap, !.evictList = <<>>]

lruCache_removeElement(c, k) ==
    Evicted([c EXCEPT !.items = Del(c.items, k), !.evictList = Without(c.evictList, k)],
            k, c.items[k].value)

lruCache_evict(c, count) ==
    IF count <= 0 \/ c.evictList = <<>> THEN c
    ELSE lruCache_removeElement(c, c.evictList[Len(c.evictList)])

lruCache_set(c, k, value) ==
    LET c1 == IF k \in DOMAIN c.items
              THEN [c EXCEPT !.items[k].value = value,
                             !.evictList = <<k>> \o Without(c.evictList, k)]
              ELSE LET c0 == IF Len(c.evictList) >= size THEN lruCache_evict(c, 1) ELSE c
                   IN [c0 EXCEPT !.items = Put(c0.items, k, NewItem(value)),
                                 !.evictList = <<k>> \o c0.evictList]
        c2 == IF expiration # NoExp
              THEN [c1 EXCEPT !.items[k].expiration = now + expiration] ELSE c1
    IN Added(c2, k, value)

\* (variant) a hit leaves the recency list as it is
lruCache_getValue_still(c, k, onLoad) ==
    IF k \in DOMAIN c.items /\ ~IsExpired(c.items[k])
    THEN Hit(c, c.items[k].value, onLoad)
    ELSE IF k \in DOMAIN c.items THEN Miss(lruCache_removeElement(c, k), onLoad)
    ELSE Miss(c, onLoad)

lruCache_getValue(c, k, onLoad) ==
    IF k \in DOMAIN c.items
    THEN IF ~IsExpired(c.items[k])
         THEN Hit([c EXCEPT !.evictList = <<k>> \o Without(c.evictList, k)],
                  c.items[k].value, onLoad)
         ELSE Miss(lruCache_removeElement(c, k), onLoad)
    ELSE Miss(c, onLoad)

lruCache_remove(c, k) ==
    IF k \in DOMAIN c.items
    THEN [c |-> lruCache_removeElement(c, k), ok |-> TRUE]
    ELSE [c |-> c, ok |-> FALSE]

\* ------------------------------------------------- the Cache interface
\* Cache.set of the engine built
cache_set(c, k, value, ord) ==
    CASE tp = TypeArc -> arcCache_set(c, k, value)
      [] tp = TypeLfu -> lfuCache_set(c, k, value, ord)
      [] tp = TypeLru -> lruCache_set(c, k, value)
      [] OTHER -> SimpleCache_set(c, k, value, ord)

\* Cache.get of the engine built: getValue, then the deserialize hook (none
\* is configured)
cache_get(c, k, onLoad) ==
    CASE tp = TypeArc -> arcCache_getValue(c, k, onLoad)
      [] tp = TypeLfu -> lfuCache_getValue(c, k, onLoad)
      [] tp = TypeLru -> lruCache_getValue(c, k, onLoad)
      [] OTHER -> SimpleCache_getValue(c, k, onLoad)

cache_Remove(c, k) ==
    CASE tp = TypeArc -> arcCache_remove(c, k)
      [] tp = TypeLfu -> lfuCache_remove(c, k)
      [] tp = TypeLru -> lruCache_remove(c, k)
      [] OTHER -> SimpleCache_remove(c, k)

cache_init(c) ==
    CASE tp = TypeArc -> arcCache_init(c)
      [] tp = TypeLfu -> lfuCache_init(c)
      [] tp = TypeLru -> lruCache_init(c)
      [] OTHER -> SimpleCache_init(c)

\* Purge: the purge visitor sees every entry of the items map, in the order
\* ord in which the map is ranged, then init
\* purgeVisitorFunc(key, value)
Visited(c, k, v) == [c EXCEPT !.pv = Append(c.pv, <<k, v>>)]

\* for key, item := range c.items { c.purgeVisitorFunc(key, item.value) }
RECURSIVE cache_visit(_, _)
cache_visit(c, ord) ==
    IF ord = <<>> THEN c
    ELSE cache_visit(Visited(c, ord[1], c.items[ord[1]].value), Tail(ord))

\* (variant) the cache is cleared without a call of the purge visitor
cache_Purge_unvisited(c, ord) == cache_init(c)

cache_Purge(c, ord) == cache_init(cache_visit(c, ord))

\* Purge of the facade: the engine after it and the counters it moved (it
\* calls neither IncrHitCount nor IncrMissCount, and init leaves stats alone)
baseCache_Purge(c, ord) ==
    [c |-> cache_Purge(c, ord), hit |-> 0, miss |-> 0]

\* has(key, now) of the engines
cache_has(c, k, t) == k \in DOMAIN c.items /\ ~IsExpiredAt(c.items[k], t)

\* the LRU engine, described by the specification only: present and not
\* expired
lruCache_Existed(c, k) == k \in DOMAIN c.items /\ ~IsExpired(c.items[k])

\* Existed: now := time.Now(); has(key, &now)
cache_Existed(c, k) ==
    IF tp = TypeLru THEN lruCache_Existed(c, k) ELSE cache_has(c, k, time_Now)

\* Keys(checkExpired), as a set: the order of the slice is that of the map
cache_Keys(c, checkExpired) ==
    {k \in DOMAIN c.items : ~checkExpired \/ cache_Existed(c, k)}

\* GetALL(checkExpired)
cache_GetALL(c, checkExpired) ==
    [k \in cache_Keys(c, checkExpired) |-> c.items[k].value]

\* Len(checkExpired)
cache_Len(c, checkExpired) ==
    IF ~checkExpired THEN Cardinality(DOMAIN c.items)
    ELSE Cardinality({k \in DOMAIN c.items : cache_Existed(c, k)})

\* the item pointer returned by set gets its expiration (SetWithExpire, and
\* the loader's callback)
\* a call under c.mu.RLock: what it returns, the engine it leaves and the
\* counters it moves
ReadOnly(c, v) == [c |-> c, value |-> v, hit |-> 0, miss |-> 0]

\* (variant) Existed removes the entry it finds expired, as getValue does
cache_ExistedCall_sweeps(c, k) ==
    IF k \in DOMAIN c.items /\ ~cache_Existed(c, k)
    THEN ReadOnly(cache_Remove(c, k).c, FALSE)
    ELSE ReadOnly(c, cache_Existed(c, k))

cache_ExistedCall(c, k) == ReadOnly(c, cache_Existed(c, k))
cache_KeysCall(c, checkExpired) == ReadOnly(c, cache_Keys(c, checkExpired))
cache_GetALLCall(c, checkExpired) == ReadOnly(c, cache_GetALL(c, checkExpired))
cache_LenCall(c, checkExpired) == ReadOnly(c, cache_Len(c, checkExpired))

setExpiration(c, k, d) ==
    IF c.fault \/ k \notin DOMAIN c.items THEN c
    ELSE [c EXCEPT !.items[k].expiration = now + d]

baseCache_Set(c, k, value, ord) == cache_set(c, k, value, ord)

baseCache_SetWithExpire(c, k, value, d, ord) ==
    setExpiration(cache_set(c, k, value, ord), k, d)

\* ------------------------------------------------------------ the loader
\* the durations a loader may return: none when it was given by LoaderFunc,
\* whose wrapper returns a nil duration
LoaderDurations == IF timed THEN {NoExp} \cup Durations ELSE {NoExp}

\* What one invocation of loaderExpireFunc(ctx, key) may return: a value with
\* or without a duration, or an error.

LoaderResults(k) ==
    {[v |-> v, exp |-> d, e |-> ErrNil] : v \in ValuesOf(k), d \in LoaderDurations}
        \cup {[v |-> NoVal, exp |-> NoExp, e |-> ErrLoader]}

\* a call's result: the engine after it, what it returned, the counters it
\* moved and the loader invocations it made
Result(c, v, e, h, ms, ld) ==
    [c |-> c, value |-> v, err |-> e, hit |-> h, miss |-> ms, loaded |-> ld]

\* cache.go:368-383, the callback getWithLoader hands to load: under the
\* engine lock, set the loaded value and the loader's expiration.  A panic in
\* it is recovered by load (cache.go:351-355) and returned as an error.
\* (variant) the callback sets what the loader returned without looking at
\* the loader's error
baseCache_loadCallback_ignores(c, k, lr, ord) ==
    LET c1 == cache_set(c, k, lr.v, ord)
    IN IF lr.e # ErrNil THEN Result(c1, NoVal, lr.e, 0, 0, 1)
       ELSE Result(c1, lr.v, ErrNil, 0, 0, 1)

baseCache_loadCallback(c, k, lr, ord) ==
    IF lr.e # ErrNil THEN Result(c, NoVal, lr.e, 0, 0, 1)
    ELSE LET c1 == cache_set(c, k, lr.v, ord)
             c2 == IF lr.exp # NoExp THEN setExpiration(c1, k, lr.exp) ELSE c1
         IN IF c2.fault THEN Result(c2, NoVal, ErrPanic, 0, 0, 1)
            ELSE Result(c2, lr.v, ErrNil, 0, 0, 1)

\* Group.Do when no call for the key is in flight (the calls of Spec run one
\* at a time): the caller registers a call, runs fn and returns its result,
\* whatever isWait is.
\* (variant) Do reads the cache first and returns a resident value unloaded
Group_DoAlone_cached(c, k, lr, ord) ==
    LET r == cache_get(c, k, TRUE)
    IN IF r.err = ErrNil THEN Result(r.c, r.value, ErrNil, 0, 0, 0)
       ELSE baseCache_loadCallback(r.c, k, lr, ord)

Group_DoAlone(c, k, lr, ord) == baseCache_loadCallback(c, k, lr, ord)

baseCache_getWithLoader(c, k, isWait, lr, ord) ==
    IF ~loader THEN Result(c, NoVal, ErrKeyNotFound, 0, 0, 0)
    ELSE Group_DoAlone(c, k, lr, ord)

\* the counters moved by the engine read stay moved when the loader runs
WithRead(r, g) == [g EXCEPT !.hit = r.hit, !.miss = r.miss]

\* what a configured deserializeFunc(key, value) may return: the value and a
\* nil error (as when no hook is configured), or an error
DeserializeResults == {ErrNil, ErrDeserialize}

\* get of the engines after getValue: the result of getValue when it is an
\* error, else what the deserialize hook returns (de: its error)
deserializeFunc(r, de) ==
    IF r.err = ErrNil /\ de # ErrNil THEN [r EXCEPT !.value = NoVal, !.err = de] ELSE r

cache_getHooked(c, k, onLoad, de) == deserializeFunc(cache_get(c, k, onLoad), de)

\* Get of a cache whose deserialize hook returns de
baseCache_GetHooked(c, k, lr, ord, de) ==
    LET r == cache_getHooked(c, k, FALSE, de)
    IN IF r.err = ErrKeyNotFound
       THEN WithRead(r, baseCache_getWithLoader(r.c, k, TRUE, lr, ord))
       ELSE Result(r.c, r.value, r.err, r.hit, r.miss, 0)

\* GetIFPresent of a cache whose deserialize hook returns de
baseCache_GetIFPresentHooked(c, k, lr, ord, de) ==
    LET r == cache_getHooked(c, k, FALSE, de)
    IN IF r.err = ErrKeyNotFound
       THEN WithRead(r, baseCache_getWithLoader(r.c, k, FALSE, lr, ord))
       ELSE Result(r.c, r.value, ErrNil, r.hit, r.miss, 0)

baseCache_Get(c, k, lr, ord) == baseCache_GetHooked(c, k, lr, ord, ErrNil)

baseCache_GetIFPresent(c, k, lr, ord) == baseCache_GetIFPresentHooked(c, k, lr, ord, ErrNil)

baseCache_Refresh(c, k, lr, ord) == baseCache_getWithLoader(c, k, TRUE, lr, ord)

\* ------------------------------------------------------------- observers
Threads == 1..NumThreads

Step(o, k, a) == [op |-> o, key |-> k, arg |-> a]

\* The scenarios of the specification: S1 (LRU, capacity 3), S2 (LFU,
\* capacity 2), S3 (ARC, capacity 2).
Scenario(t) ==
    CASE t = TypeLru -> <<Step("Set", "A", 1), Step("Set", "B", 2), Step("Set", "C", 3),
                          Step("Get", "A", NoVal), Step("Set", "D", 4)>>
      [] t = TypeLfu -> <<Step("Set", "A", 1), Step("Set", "B", 2), Step("Get", "A", NoVal),
                          Step("Get", "A", NoVal), Step("Get", "B", NoVal),
                          Step("Set", "C", 3)>>
      [] t = TypeArc -> <<Step("Set", "A", 1), Step("Set", "B", 2), Step("Set", "C", 3),
                          Step("Set", "A", 9), Step("Get", "A", NoVal)>>
      [] OTHER -> <<>>

ScenarioSize(t) == IF t = TypeLru THEN 3 ELSE 2

OffScenario == 0 - 1

\* scen counts the calls of the run while they are the scenario's, in order
ScenNext(o, k, a) ==
    IF scen >= 0 /\ scen < Len(Scenario(tp)) /\ Scenario(tp)[scen + 1] = Step(o, k, a)
    THEN scen + 1 ELSE OffScenario

\* hits and recent are kept from what the calls return, not from the engine's
\* own bookkeeping: a read that returned from the engine is a hit, an insert
\* or a hit is a touch.  (hits is kept for the LFU engine, recent for LRU.)
Observe(k, c, touched, readHit, readMiss) ==
    /\ hits' = [j \in AllKeys |->
                   IF tp # TypeLfu \/ j \notin DOMAIN c.items THEN 0
                   ELSE IF j # k THEN hits[j]
                   ELSE IF readHit THEN hits[j] + 1
                   ELSE IF readMiss \/ j \notin DOMAIN items THEN 0
                   ELSE hits[j]]
    /\ recent' = IF tp # TypeLru THEN <<>>
                 ELSE SelectSeq(IF touched THEN <<k>> \o Without(recent, k) ELSE recent,
                                LAMBDA j : j \in DOMAIN c.items)

Commit(c) ==
    /\ items' = c.items
    /\ t1' = c.t1
    /\ t2' = c.t2
    /\ b1' = c.b1
    /\ b2' = c.b2
    /\ part' = c.part
    /\ freqList' = c.freqList
    /\ evictList' = c.evictList
    /\ fault' = (fault \/ c.fault)

\* ------------------------------------------------------ inputs of a call
\* The orders in which the engine may range its items map during a call on
\* key k: they matter only to an eviction scan, which runs only when the
\* entries other than k fill the cache.
MapOrders(k) ==
    IF /\ tp \in {TypeSimple, TypeLfu}
       /\ DOMAIN items \ {k} # {}
       /\ Cardinality(DOMAIN items \ {k}) >= size
    THEN Orders(DOMAIN items \ {k}) ELSE {<<>>}

\* every order in which a Go map over the keys S may be ranged in full
Ranges(S) ==
    {f \in [1..Cardinality(S) -> S] : \A i, j \in 1..Cardinality(S) : f[i] = f[j] => i = j}

NoLoad == [v |-> NoVal, exp |-> NoExp, e |-> ErrNil]

\* what the loader returns, when the call reaches it
LoaderInputs(k, reached) == IF loader /\ reached THEN LoaderResults(k) ELSE {NoLoad}

ReadMisses(k) == cache_get(Engine, k, FALSE).err = ErrKeyNotFound

\* what the deserialize hook may return in a read of k: it is called only
\* with a value that getValue found
HookResults(k) == IF ReadMisses(k) THEN {ErrNil} ELSE DeserializeResults

\* the bound on LFU frequencies: a resident key is read while below MaxFreq
ReadAllowed(k) ==
    (tp = TypeLfu /\ k \in DOMAIN items) => freqList[items[k].freqElement].freq < MaxFreq

\* ---------------------------------------------------------------- actions
Configurations ==
    /\ tp \in {TypeSimple, TypeLru, TypeLfu, TypeArc}
    /\ size \in SizesOf(tp)
    /\ expiration \in {NoExp} \cup Durations
    /\ loader \in BOOLEAN
    /\ timed = TRUE

\* the cache as Build returns it
NewCache ==
    /\ now = 0
    /\ items = EmptyMap
    /\ t1 = <<>> /\ t2 = <<>> /\ b1 = <<>> /\ b2 = <<>> /\ part = 0
    /\ freqList = IF tp = TypeLfu THEN <<freqEntry(0, {})>> ELSE <<>>
    /\ evictList = <<>>
    /\ fault = FALSE
    /\ hits = [j \in AllKeys |-> 0]
    /\ recent = <<>>
    /\ m = EmptyMap /\ calls = <<>>
    /\ val = [t \in Threads |-> NoVal]
    /\ err = [t \in Threads |-> ErrNil]
    /\ slot = [t \in Threads |-> 0]
    /\ ldr = [t \in Threads |-> NoLoad]
    /\ mu = 0
    /\ ctx = [t \in Threads |-> FALSE]
    /\ loads = [j \in AllKeys |-> 0]

\* the calls of Spec are made one at a time: no thread is inside a call
Init ==
    /\ Configurations
    /\ NewCache
    /\ scen = IF size = ScenarioSize(tp) THEN 0 ELSE OffScenario
    /\ pc = [t \in Threads |-> "idle"]
    /\ op = [t \in Threads |-> "New"]
    /\ key = [t \in Threads |-> ""]

Set ==
    \E k \in KeysOf(tp) : \E v \in ValuesOf(k) : \E ord \in MapOrders(k) :
        LET c == baseCache_Set(Engine, k, v, ord)
        IN /\ Commit(c)
           /\ Observe(k, c, ~c.fault, FALSE, FALSE)
           /\ scen' = ScenNext("Set", k, v)
           /\ UNCHANGED <<cfgVars, now, thrVars>>

SetWithExpire ==
    \E k \in KeysOf(tp) : \E v \in ValuesOf(k) : \E d \in Durations : \E ord \in MapOrders(k) :
        LET c == baseCache_SetWithExpire(Engine, k, v, d, ord)
        IN /\ Commit(c)
           /\ Observe(k, c, ~c.fault, FALSE, FALSE)
           /\ scen' = OffScenario
           /\ UNCHANGED <<cfgVars, now, thrVars>>

\* a read through the facade has returned r
Read(o, k, r) ==
    /\ Commit(r.c)
    /\ Observe(k, r.c, r.err = ErrNil \/ r.hit = 1, r.hit = 1, r.miss = 1)
    /\ scen' = ScenNext(o, k, NoVal)
    /\ UNCHANGED <<cfgVars, now, thrVars>>

Get ==
    \E k \in KeysOf(tp) : \E lr \in LoaderInputs(k, ReadMisses(k)) : \E ord \in MapOrders(k) :
        \E de \in HookResults(k) :
            /\ ReadAllowed(k)
            /\ Read("Get", k, baseCache_GetHooked(Engine, k, lr, ord, de))

GetIFPresent ==
    \E k \in KeysOf(tp) : \E lr \in LoaderInputs(k, ReadMisses(k)) : \E ord \in MapOrders(k) :
        \E de \in HookResults(k) :
            /\ ReadAllowed(k)
            /\ Read("GetIFPresent", k, baseCache_GetIFPresentHooked(Engine, k, lr, ord, de))

Refresh ==
    \E k \in KeysOf(tp) : \E lr \in LoaderInputs(k, TRUE) : \E ord \in MapOrders(k) :
        LET r == baseCache_Refresh(Engine, k, lr, ord)
        IN /\ Commit(r.c)
           /\ Observe(k, r.c, r.err = ErrNil /\ loader, FALSE, FALSE)
           /\ scen' = OffScenario
           /\ UNCHANGED <<cfgVars, now, thrVars>>

Remove ==
    \E k \in KeysOf(tp) :
        LET rr == cache_Remove(Engine, k)
        IN /\ Commit(rr.c)
           /\ Observe(k, rr.c, FALSE, FALSE, FALSE)
           /\ scen' = OffScenario
           /\ UNCHANGED <<cfgVars, now, thrVars>>

Purge ==
    \E ord \in Ranges(DOMAIN items) :
        LET c == baseCache_Purge(Engine, ord).c
        IN /\ Commit(c)
           /\ Observe("", c, FALSE, FALSE, FALSE)
           /\ scen' = OffScenario
           /\ UNCHANGED <<cfgVars, now, thrVars>>

\* fakeclock.Advance by one tick
Advance ==
    /\ now < MaxTime
    /\ now' = now + 1
    /\ scen' = OffScenario
    /\ UNCHANGED <<cfgVars, engVars, hits, recent, thrVars>>

Next ==
    \/ Set
    \/ SetWithExpire
    \/ Get
    \/ GetIFPresent
    \/ Refresh
    \/ Remove
    \/ Purge
    \/ Advance

Spec == Init /\ [][Next]_vars

\* one engine at a time
InitSimple == Init /\ tp = TypeSimple
SpecSimple == InitSimple /\ [][Next]_vars

InitLru == Init /\ tp = TypeLru
SpecLru == InitLru /\ [][Next]_vars

InitLfu == Init /\ tp = TypeLfu
SpecLfu == InitLfu /\ [][Next]_vars

InitArc == Init /\ tp = TypeArc
SpecArc == InitArc /\ [][Next]_vars

\* the engines that evict on every insert at capacity
InitBounded == Init /\ tp \in {TypeLfu, TypeArc}
SpecBounded == InitBounded /\ [][Next]_vars

\* a Simple cache built with size 0
InitUnbounded ==
    /\ tp = TypeSimple
    /\ size = 0
    /\ expiration \in {NoExp} \cup Durations
    /\ loader \in BOOLEAN
    /\ timed = TRUE
    /\ NewCache
    /\ scen = OffScenario
    /\ pc = [t \in Threads |-> "idle"]
    /\ op = [t \in Threads |-> "New"]
    /\ key = [t \in Threads |-> ""]
SpecUnbounded == InitUnbounded /\ [][Next]_vars

\* the engines whose source is at hand
InitCoded == Init /\ tp \in {TypeSimple, TypeLfu, TypeArc}
SpecCoded == InitCoded /\ [][Next]_vars

\* ------------------------------------------------- the loading path, stepwise
\* Each thread makes one call of Get, GetIFPresent or Refresh on a cache
\* built with a loader; the steps of the calls interleave at the locks.
LoadOps == {"Get", "GetIFPresent", "Refresh"}
LoadKeys == {"A", "B"}
LoadTypes == {TypeSimple, TypeLfu, TypeArc}

\* what the loader may do in SpecLoad: return a value, return an error, or
\* panic (load recovers the panic as an error, cache.go:351-355)
LoadResults(k) ==
    {[v |-> v, exp |-> d, e |-> ErrNil] : v \in ValuesOf(k), d \in LoaderDurations}
        \cup {[v |-> NoVal, exp |-> NoExp, e |-> ErrLoader],
              [v |-> NoVal, exp |-> NoExp, e |-> ErrPanic]}

\* a CallSlot of the coordinator
\* (by: the thread that registered it)
NewCall(k, t) == [key |-> k, by |-> t, done |-> FALSE, val |-> NoVal, err |-> ErrNil]

\* (variant) c.mu.Lock() returns although the lock is held
Lockable_always(holder) == TRUE
\* c.mu.Lock() returns when no thread holds the lock
Lockable(holder) == holder = 0

\* (variant) c.mu.Unlock() is missing: the lock stays with its holder
Unlock_missing(holder, t) == holder
\* c.mu.Unlock() by thread t
Unlock(holder, t) == IF holder = t THEN 0 ELSE holder

\* the first step of a call
FirstStep(o) ==
    CASE o = "Refresh" -> "do"
      [] o \in {"Get", "GetIFPresent"} -> "get"
      [] OTHER -> "write"

InitLoad ==
    /\ tp \in LoadTypes
    /\ size = MaxSize
    /\ expiration = NoExp
    /\ loader = TRUE
    /\ timed = FALSE
    /\ NewCache
    /\ scen = OffScenario
    /\ op \in [Threads -> LoadOps]
    /\ key \in [Threads -> LoadKeys]
    /\ pc = [t \in Threads |-> FirstStep(op[t])]

\* Get / GetIFPresent: c.cache.get(key, false); getValue takes the engine
\* lock and reads
GetStep(t) ==
    /\ pc[t] = "get"
    /\ Lockable(mu)
    /\ LET r == cache_get(Engine, key[t], FALSE)
       IN /\ Commit(r.c)
          /\ val' = [val EXCEPT ![t] = r.value]
          /\ err' = [err EXCEPT ![t] = r.err]
    /\ mu' = t
    /\ pc' = [pc EXCEPT ![t] = "got"]
    /\ UNCHANGED <<cfgVars, now, obsVars, m, calls, op, key, slot, ldr, ctx, loads>>

\* getValue unlocks and returns: on ErrKeyNotFound the call goes on to
\* getWithLoader, else get goes on to the deserialize hook
GetReturn(t) ==
    /\ pc[t] = "got"
    /\ mu' = Unlock(mu, t)
    /\ pc' = [pc EXCEPT ![t] = IF err[t] = ErrKeyNotFound THEN "do" ELSE "deserialize"]
    /\ UNCHANGED <<cfgVars, now, engVars, obsVars, m, calls, op, key, val, err, slot, ldr,
                   ctx, loads>>

\* get: c.deserializeFunc(key, v) (a hook that returns the value), and the
\* return of Get / GetIFPresent
Deserialize(t) ==
    /\ pc[t] = "deserialize"
    /\ LET r == deserializeFunc([value |-> val[t], err |-> err[t]], ErrNil)
       IN /\ val' = [val EXCEPT ![t] = r.value]
          /\ err' = [err EXCEPT ![t] = IF op[t] = "Get" THEN r.err ELSE ErrNil]
    /\ pc' = [pc EXCEPT ![t] = "done"]
    /\ UNCHANGED <<cfgVars, now, engVars, obsVars, m, calls, op, key, slot, ldr, mu, ctx,
                   loads>>

\* Group.Do, under the coordinator lock: join the call in flight for the key
\* (to wait for it, or to return at once when isWait is false), or register
\* a new call and go on to run fn.
\* (variant) a call in flight is never found
Group_inFlight_never(mm, k) == FALSE
Group_inFlight(mm, k) == k \in DOMAIN mm

DoEnter(t) ==
    /\ pc[t] = "do"
    /\ IF Group_inFlight(m, key[t])
       THEN /\ slot' = [slot EXCEPT ![t] = m[key[t]]]
            /\ IF op[t] # "GetIFPresent"
               THEN /\ pc' = [pc EXCEPT ![t] = "wait"]
                    /\ UNCHANGED err
               ELSE /\ pc' = [pc EXCEPT ![t] = "done"]
                    /\ err' = [err EXCEPT ![t] = ErrKeyNotFound]
            /\ UNCHANGED <<m, calls>>
       ELSE /\ calls' = Append(calls, NewCall(key[t], t))
            /\ m' = Put(m, key[t], Len(calls) + 1)
            /\ slot' = [slot EXCEPT ![t] = Len(calls) + 1]
            /\ pc' = [pc EXCEPT ![t] = "load"]
            /\ UNCHANGED err
    /\ UNCHANGED <<cfgVars, now, engVars, obsVars, op, key, val, ldr, mu, ctx, loads>>

\* fn: c.loaderExpireFunc(ctx, key) is entered ...
LoaderCall(t) ==
    /\ pc[t] = "load"
    /\ pc' = [pc EXCEPT ![t] = "loading"]
    /\ loads' = [loads EXCEPT ![key[t]] = @ + 1]
    /\ UNCHANGED <<cfgVars, now, engVars, obsVars, m, calls, op, key, val, err, slot, ldr,
                   mu, ctx>>

\* ... and returns, or panics
LoaderReturn(t) ==
    /\ pc[t] = "loading"
    /\ \E lr \in LoadResults(key[t]) : ldr' = [ldr EXCEPT ![t] = lr]
    /\ pc' = [pc EXCEPT ![t] = "cb"]
    /\ UNCHANGED <<cfgVars, now, engVars, obsVars, m, calls, op, key, val, err, slot, mu,
                   ctx, loads>>

\* what the loader returned, its duration left out: the callback up to the
\* return of c.cache.set (cache.go:369-377)
Unstamped(lr) == [lr EXCEPT !.exp = NoExp]

\* fn: the callback of getWithLoader.  It returns the loader's error at once;
\* else it takes the engine lock and sets the loaded value; the expiration
\* the loader returned is stamped on the item after set has returned.
\* (After a panic of the loader the callback is not called: load's recover
\* makes the error.)
LoadCallback(t) ==
    /\ pc[t] = "cb"
    /\ \E ord \in MapOrders(key[t]) :
           LET r == baseCache_loadCallback(Engine, key[t], Unstamped(ldr[t]), ord)
           IN /\ Commit(r.c)
              /\ val' = [val EXCEPT ![t] = r.value]
              /\ err' = [err EXCEPT ![t] = r.err]
              /\ IF ldr[t].e # ErrNil
                 THEN /\ pc' = [pc EXCEPT ![t] = "finish"]
                      /\ UNCHANGED mu
                 ELSE /\ Lockable(mu)
                      /\ mu' = t
                      /\ pc' = [pc EXCEPT ![t] =
                                   IF r.err = ErrNil /\ ldr[t].exp # NoExp
                                   THEN "stamp" ELSE "set"]
    /\ UNCHANGED <<cfgVars, now, obsVars, m, calls, op, key, slot, ldr, ctx, loads>>

\* the second statement of an insert with a duration, still under the engine
\* lock: item.expiration = &t, in the load callback (cache.go:378-381) with
\* the loader's duration and in SetWithExpire (cache.go:323-324) with the
\* caller's
Stamp(t) ==
    /\ pc[t] = "stamp"
    /\ \E d \in IF op[t] = "SetWithExpire" THEN Durations ELSE {ldr[t].exp} :
           Commit(setExpiration(Engine, key[t], d))
    /\ pc' = [pc EXCEPT ![t] = IF op[t] = "SetWithExpire" THEN "written" ELSE "set"]
    /\ UNCHANGED <<cfgVars, now, obsVars, m, calls, op, key, val, err, slot, ldr, mu, ctx,
                   loads>>

\* the callback returns: the deferred c.mu.Unlock() runs
CallbackReturn(t) ==
    /\ pc[t] = "set"
    /\ mu' = Unlock(mu, t)
    /\ pc' = [pc EXCEPT ![t] = "finish"]
    /\ UNCHANGED <<cfgVars, now, engVars, obsVars, m, calls, op, key, val, err, slot, ldr,
                   ctx, loads>>

\* Group.Do after fn, under the coordinator lock: the result is stored in the
\* slot, the slot is removed from the mapping and the waiters are released
DoFinish(t) ==
    /\ pc[t] = "finish"
    /\ calls' = [calls EXCEPT ![slot[t]] = [@ EXCEPT !.done = TRUE, !.val = val[t],
                                                     !.err = err[t]]]
    /\ m' = Del(m, key[t])
    /\ pc' = [pc EXCEPT ![t] = "done"]
    /\ UNCHANGED <<cfgVars, now, engVars, obsVars, op, key, val, err, slot, ldr, mu, ctx,
                   loads>>

\* a waiter is released by the completion signal and returns the slot's result
DoWait(t) ==
    /\ pc[t] = "wait"
    /\ calls[slot[t]].done
    /\ val' = [val EXCEPT ![t] = calls[slot[t]].val]
    /\ err' = [err EXCEPT ![t] = calls[slot[t]].err]
    /\ pc' = [pc EXCEPT ![t] = "done"]
    /\ UNCHANGED <<cfgVars, now, engVars, obsVars, m, calls, op, key, slot, ldr, mu, ctx,
                   loads>>

\* the caller cancels the context of a Get or Refresh that waits in Do.  (Do
\* is not given the context, cache.go:350: only the loader is.)
Cancel(t) ==
    /\ pc[t] = "wait"
    /\ ~ctx[t]
    /\ ctx' = [ctx EXCEPT ![t] = TRUE]
    /\ UNCHANGED <<cfgVars, now, engVars, obsVars, m, calls, pc, op, key, val, err, slot,
                   ldr, mu, loads>>

NextLoad ==
    \/ \E t \in Threads : GetStep(t)
    \/ \E t \in Threads : GetReturn(t)
    \/ \E t \in Threads : Deserialize(t)
    \/ \E t \in Threads : DoEnter(t)
    \/ \E t \in Threads : LoaderCall(t)
    \/ \E t \in Threads : LoaderReturn(t)
    \/ \E t \in Threads : LoadCallback(t)
    \/ \E t \in Threads : CallbackReturn(t)
    \/ \E t \in Threads : DoFinish(t)
    \/ \E t \in Threads : DoWait(t)
    \/ \E t \in Threads : Cancel(t)

SpecLoad == InitLoad /\ [][NextLoad]_vars

\* ------------------------------------------- reads and writes, stepwise
\* The threads' calls are any of the cache's reads through the loader and of
\* its writes; a write holds the engine lock from its first statement to its
\* return.
WriteOps == {"Set", "SetWithExpire", "Remove", "Purge"}
\* one key: every call contends for the same entry and the same slot
LockKeys == {"B"}

InitLock ==
    /\ tp \in LoadTypes
    /\ size = MaxSize
    /\ expiration = NoExp
    /\ loader = TRUE
    /\ timed = FALSE
    /\ NewCache
    /\ scen = OffScenario
    /\ op \in [Threads -> LoadOps \cup WriteOps]
    /\ key \in [Threads -> LockKeys]
    /\ pc = [t \in Threads |-> FirstStep(op[t])]

\* the values a write may be called with
WriteValues(o, k) == IF o \in {"Set", "SetWithExpire"} THEN ValuesOf(k) ELSE {NoVal}

\* (variant) a Set on a resident key leaves the value it finds
WriteResults_keeps(o, k, v) ==
    CASE o \in {"Set", "SetWithExpire"} ->
           IF k \in DOMAIN items THEN {Engine}
           ELSE {cache_set(Engine, k, v, ord) : ord \in MapOrders(k)}
      [] o = "Remove" -> {cache_Remove(Engine, k).c}
      [] OTHER -> {baseCache_Purge(Engine, ord).c : ord \in Ranges(DOMAIN items)}

\* the engines a write of v on key k may leave when c.cache.set, remove or
\* purge has returned (SetWithExpire: before it stamps the expiration)
WriteResults(o, k, v) ==
    CASE o \in {"Set", "SetWithExpire"} ->
           {cache_set(Engine, k, v, ord) : ord \in MapOrders(k)}
      [] o = "Remove" -> {cache_Remove(Engine, k).c}
      [] OTHER -> {baseCache_Purge(Engine, ord).c : ord \in Ranges(DOMAIN items)}

\* Set / SetWithExpire / Remove / Purge: c.mu.Lock() and the body, up to the
\* return of set in SetWithExpire.  val keeps the value the call was made
\* with.
WriteStep(t) ==
    /\ pc[t] = "write"
    /\ Lockable(mu)
    /\ \E v \in WriteValues(op[t], key[t]) : \E c \in WriteResults(op[t], key[t], v) :
           /\ Commit(c)
           /\ val' = [val EXCEPT ![t] = v]
           /\ pc' = [pc EXCEPT ![t] =
                        IF op[t] = "SetWithExpire" /\ ~c.fault THEN "stamp" ELSE "written"]
    /\ mu' = t
    /\ UNCHANGED <<cfgVars, now, obsVars, m, calls, op, key, err, slot, ldr, ctx, loads>>

\* the write returns: the deferred c.mu.Unlock() runs
WriteReturn(t) ==
    /\ pc[t] = "written"
    /\ mu' = Unlock(mu, t)
    /\ pc' = [pc EXCEPT ![t] = "done"]
    /\ UNCHANGED <<cfgVars, now, engVars, obsVars, m, calls, op, key, val, err, slot, ldr,
                   ctx, loads>>

NextLock ==
    \/ NextLoad
    \/ \E t \in Threads : Stamp(t)
    \/ \E t \in Threads : WriteStep(t)
    \/ \E t \in Threads : WriteReturn(t)

\* a step that can be taken is taken in the end: the loader terminates, the
\* callbacks return and the scheduler runs every thread
SpecLock == InitLock /\ [][NextLock]_vars /\ WF_vars(NextLock)

\* Inserts that race on one key: each thread calls Set, SetWithExpire or Get
\* on the key A of a cache whose loader may return a duration.
OrderOps == {"Get", "Set", "SetWithExpire"}
OrderKeys == {"A"}

InitOrder ==
    /\ tp \in LoadTypes
    /\ size = MaxSize
    /\ expiration = NoExp
    /\ loader = TRUE
    /\ timed = TRUE
    /\ NewCache
    /\ scen = OffScenario
    /\ op \in [Threads -> OrderOps]
    /\ key \in [Threads -> OrderKeys]
    /\ pc = [t \in Threads |-> FirstStep(op[t])]

SpecOrder == InitOrder /\ [][NextLock]_vars

\* ------------------------------------------------------------- properties
\* the threads of SpecLoad that call on key k
Callers(k) == {t \in Threads : key[t] = k}

Waited(t) == slot[t] # 0 /\ calls[slot[t]].by # t /\ op[t] # "GetIFPresent"

\* C2: for each key at most one loader invocation is executing at any time,
\* whatever mix of Get, GetIFPresent and Refresh the callers make, and a
\* caller that waited on a load in flight returns exactly the value or the
\* error that the invocation produced.
C2_OneLoadInFlight ==
    /\ \A k \in LoadKeys : Cardinality({t \in Callers(k) : pc[t] = "loading"}) <= 1
    /\ \A t \in Threads :
           (pc[t] = "done" /\ Waited(t))
           => LET l == calls[slot[t]].by
              IN val[t] = ldr[l].v /\ err[t] = ldr[l].e

\* a waiter has returned the value loaded by another thread
C2_Witness ==
    \E t \in Threads : pc[t] = "done" /\ Waited(t) /\ val[t] # NoVal /\ loads[key[t]] = 1

\* C3: in an LFU or ARC cache of capacity N > 0 the items map (Len(false))
\* never holds more than N entries, whatever calls of Set, SetWithExpire, Get,
\* Remove and Purge are made.
C3_BoundedLen ==
    tp \in {TypeLfu, TypeArc} => Cardinality(DOMAIN items) <= size

\* an ARC cache of the largest capacity that is full and has evicted from T2
C3_Witness ==
    /\ tp = TypeArc /\ size = MaxSize
    /\ Cardinality(DOMAIN items) = size
    /\ b2 # <<>>

\* C4: in a Simple cache of capacity N > 0 the items map (Len(false)) holds at
\* most N entries after every call, whether the resident entries carry no
\* expiration, one still in the future or one already passed.
C4_SimpleLen ==
    tp = TypeSimple => Cardinality(DOMAIN items) <= size

\* C5: in an ARC cache of capacity N, |T1| + |B1| <= N after every call.
C5_RecentBound ==
    tp = TypeArc => Len(t1) + Len(b1) <= size

Disjoint(a, b) == SeqSet(a) \cap SeqSet(b) = {}

\* C6: in an ARC cache of capacity N, after every call |T2| + |B2| <= 2N, no
\* key is in two of the lists T1, T2, B1, B2, and 0 <= p <= N.
C6_ArcLists ==
    tp = TypeArc =>
        /\ Len(t2) + Len(b2) <= 2 * size
        /\ Disjoint(t1, t2) /\ Disjoint(t1, b1) /\ Disjoint(t1, b2)
        /\ Disjoint(t2, b1) /\ Disjoint(t2, b2) /\ Disjoint(b1, b2)
        /\ 0 <= part /\ part <= size

\* T2 and B2 together hold 2N keys, after ghost hits have moved p up to N
C6_Witness ==
    tp = TypeArc /\ Len(t2) + Len(b2) = 2 * size /\ part = size

\* C7: between calls the items map and the policy structure hold the same
\* keys.  ARC: the keys of the items map are those of T1 and T2, and no ghost
\* key has an entry.  LFU: every key of the items map is in exactly one
\* frequency bucket, the one its freqElement points to, and no bucket holds a
\* key absent from the map.
C7_IndexMatchesPolicy ==
    /\ tp = TypeArc =>
           /\ DOMAIN items = SeqSet(t1) \cup SeqSet(t2)
           /\ (SeqSet(b1) \cup SeqSet(b2)) \cap DOMAIN items = {}
    /\ tp = TypeLfu =>
           /\ \A k \in DOMAIN items :
                  /\ items[k].freqElement \in 1..Len(freqList)
                  /\ \A i \in 1..Len(freqList) :
                         (k \in freqList[i].items) <=> (i = items[k].freqElement)
           /\ \A i \in 1..Len(freqList) : freqList[i].items \subseteq DOMAIN items

\* an LFU cache whose entries sit in different buckets, an emptied one between
C7_Witness ==
    /\ tp = TypeLfu
    /\ Len(freqList) >= 3
    /\ freqList[1].items # {} /\ freqList[2].items = {} /\ freqList[3].items # {}

\* the scenario of the engine has been followed to its end
ScenarioDone(t) == tp = t /\ scen = Len(Scenario(t))

\* a call has inserted a key into a cache that held `size` entries
InsertsAtCapacity(t) ==
    tp = t /\ Cardinality(DOMAIN items) = size /\ (DOMAIN items' \ DOMAIN items) # {}

\* exactly the entry e has left the items map
EvictsOnly(e) ==
    /\ e \notin DOMAIN items'
    /\ (DOMAIN items \ {e}) \subseteq DOMAIN items'

C8_Scenario == ScenarioDone(TypeLfu) => DOMAIN items = {"A", "C"}

C8_Insert ==
    InsertsAtCapacity(TypeLfu)
    => \E e \in DOMAIN items :
           EvictsOnly(e) /\ \A j \in DOMAIN items : hits[e] <= hits[j]

\* C8: in an LFU cache at capacity, inserting a new key evicts exactly one
\* entry, and that entry has the least number of successful reads since it
\* was inserted; with capacity 2, Set(A);Set(B);Get(A);Get(A);Get(B);Set(C)
\* evicts B and keeps A and C.
C8_LfuEvictsLeastHit == []C8_Scenario /\ [][C8_Insert]_vars

C8_Witness == ScenarioDone(TypeLfu) /\ hits["A"] = 2 /\ hits["C"] = 0

C9_Scenario == ScenarioDone(TypeLru) => DOMAIN items = {"A", "C", "D"}

C9_Insert ==
    InsertsAtCapacity(TypeLru) => EvictsOnly(recent[Len(recent)])

\* C9: in an LRU cache of capacity N, inserting a new key while N entries are
\* resident evicts exactly the entry least recently touched by a Set or a read
\* hit; with capacity 3, Set(A);Set(B);Set(C);Get(A);Set(D) evicts B and leaves
\* A, C and D.
C9_LruEvictsLeastRecent == []C9_Scenario /\ [][C9_Insert]_vars

C9_Witness == ScenarioDone(TypeLru) /\ recent = <<"D", "A", "C">>

\* what Get(A) returns from the present state
GetA == baseCache_Get(Engine, "A", NoLoad, <<>>)

\* C10 (as stated): ARC, capacity 2, p = 0: after Set(A,1);Set(B,2);Set(C,3)
\* the key A is in B1; Set(A,9) is then a ghost hit that sets p to 1 and puts
\* A in T2 with value 9; Get(A) then returns 9.
C10_GhostHit ==
    tp = TypeArc =>
        /\ scen = 3 => arcList_Has(b1, "A")
        /\ scen = 4 => /\ part = 1
                       /\ arcList_Has(t2, "A")
                       /\ items["A"].value = 9
                       /\ GetA.value = 9 /\ GetA.err = ErrNil

\* C10 (amended): after Set(A,1);Set(B,2);Set(C,3) the key A has left T1
\* without entering B1; Set(A,9) is then a fresh insert that leaves p at 0,
\* drops B and puts A at the front of T1 with value 9; Get(A) then returns 9
\* and moves A to T2.
C10_FreshInsert ==
    tp = TypeArc =>
        /\ scen = 3 => t1 = <<"C", "B">> /\ t2 = <<>> /\ b1 = <<>> /\ b2 = <<>>
        /\ scen = 4 => /\ part = 0
                       /\ t1 = <<"A", "C">> /\ t2 = <<>> /\ b1 = <<>> /\ b2 = <<>>
                       /\ items["A"].value = 9
                       /\ GetA.value = 9 /\ GetA.err = ErrNil
        /\ scen = 5 => t1 = <<"C">> /\ t2 = <<"A">> /\ items["A"].value = 9

C10_Witness == ScenarioDone(TypeArc) /\ arcList_Has(t2, "A")

\* the entries that the cache's own clock has not seen expire
Live == {k \in DOMAIN items : ~IsExpired(items[k])}

\* C11: Existed, Len(true), Keys(true) and GetALL(true) decide expiry against
\* the clock the cache was built with, the one that stamped the expiration:
\* an entry set with a duration is reported until the clock has been advanced
\* past it, and not after.
C11_ReadsUseClock ==
    /\ \A k \in AllKeys : cache_Existed(Engine, k) <=> k \in Live
    /\ cache_Len(Engine, TRUE) = Cardinality(Live)
    /\ cache_Keys(Engine, TRUE) = Live
    /\ DOMAIN cache_GetALL(Engine, TRUE) = Live

\* the resident entries that carry an expiration
Expiring == {k \in DOMAIN items : items[k].expiration # NoExp}

\* what the engine's get returns for key k from the present state
GetNow(k) == cache_get(Engine, k, FALSE)

\* C12 (as stated): reads treat an entry as absent exactly when
\* now >= expiration; at the instant now = expiration Get returns not-found
\* and Existed returns false.
C12_AbsentFromInstant ==
    \A k \in Expiring :
        /\ (GetNow(k).err = ErrKeyNotFound) <=> (now >= items[k].expiration)
        /\ (now = items[k].expiration) => ~cache_Existed(Engine, k)

\* C12 (amended): a read treats an entry as absent exactly when its
\* expiration is strictly before the time the read takes (Get: the cache's
\* clock; Existed: time.Now()); at the instant now = expiration Get still
\* returns the value.  An entry without expiration is never absent.
C12_AbsentAfterInstant ==
    /\ \A k \in Expiring :
           /\ (GetNow(k).err = ErrKeyNotFound) <=> (now > items[k].expiration)
           /\ (now = items[k].expiration)
                  => GetNow(k).err = ErrNil /\ GetNow(k).value = items[k].value
           /\ tp # TypeLru => (cache_Existed(Engine, k) <=> ~(items[k].expiration < time_Now))
    /\ \A k \in DOMAIN items \ Expiring : GetNow(k).err = ErrNil

\* the clock has been advanced by exactly the duration of a resident entry
C12_Witness ==
    \E k \in Expiring : now > 0 /\ now = items[k].expiration /\ GetNow(k).err = ErrNil

\* the resident entries whose expiration has passed on the cache's clock
Expired == {k \in DOMAIN items : IsExpired(items[k])}

\* Get(k) on a cache without loader, from the present state
GetNoLoader(k) == baseCache_Get(Engine, k, NoLoad, <<>>)

\* a Get of an expired entry: not-found, the entry alone leaves the map, the
\* evicted callback fires once with its key and value
C13_ExpiredGet ==
    ~loader =>
        \A k \in Expired :
            LET r == GetNoLoader(k)
            IN /\ r.err = ErrKeyNotFound
               /\ DOMAIN r.c.items = DOMAIN items \ {k}
               /\ cache_Len(r.c, FALSE) = cache_Len(Engine, FALSE) - 1
               /\ r.c.ev = <<<<k, items[k].value>>>>

\* calls that neither read the entry nor insert a key leave it in the map
C13_OthersKeep ==
    \A k \in Expired :
        /\ \A j \in DOMAIN items \ {k} : k \in DOMAIN cache_get(Engine, j, FALSE).c.items
        /\ \A j \in DOMAIN items : \A v \in ValuesOf(j) :
               k \in DOMAIN cache_set(Engine, j, v, <<>>).items
        /\ \A j \in AllKeys \ {k} : k \in DOMAIN cache_Remove(Engine, j).c.items

\* the passing of time alone removes nothing
C13_NoSweep == now' # now => items' = items

\* C13: a Get (no loader) of a resident entry whose expiration has passed
\* returns ErrKeyNotFound, removes the entry so that Len(false) drops by one
\* and fires the evicted callback exactly once with the entry's key and
\* value; until then (or until an eviction at capacity) the expired entry
\* stays counted by Len(false).
C13_LazyExpiration == [](C13_ExpiredGet /\ C13_OthersKeep) /\ [][C13_NoSweep]_vars

\* an expired entry is resident next to a live one, in a cache without loader
C13_Witness ==
    ~loader /\ Expired # {} /\ Live # {} /\ cache_Len(Engine, FALSE) = size

\* the results Get(k) may have from the present state, over what the loader
\* returns and the order in which an eviction scan ranges the map
GetResults(k) ==
    {baseCache_Get(Engine, k, lr, ord) :
        lr \in LoaderInputs(k, ReadMisses(k)), ord \in MapOrders(k)}

\* C14 (as stated): a Get that returns a value moves hits by 1 and misses by
\* 0, whether the value came from the engine or from the loader after an
\* engine miss; a Get that returns ErrKeyNotFound moves misses by 1 and hits
\* by 0.
C14_CountsByResult ==
    \A k \in KeysOf(tp) : \A r \in GetResults(k) :
        /\ r.err = ErrNil => r.hit = 1 /\ r.miss = 0
        /\ r.err = ErrKeyNotFound => r.hit = 0 /\ r.miss = 1

\* C14 (amended): a Get whose value came from the engine moves hits by 1 and
\* misses by 0; a Get that missed in the engine moves misses by 1 and hits by
\* 0, whether it then returns ErrKeyNotFound, the loader's error or the value
\* the loader produced.
C14_CountsByEngineRead ==
    \A k \in KeysOf(tp) : \A r \in GetResults(k) :
        /\ r.hit + r.miss = 1
        /\ r.hit = 1 <=> (k \in Live)
        /\ r.hit = 1 => r.err = ErrNil /\ r.value = items[k].value /\ r.loaded = 0
        /\ r.err = ErrKeyNotFound => r.miss = 1
        /\ r.loaded = 1 => r.miss = 1

\* with a loader, an expired entry is resident: a Get of it misses and loads
C14_Witness ==
    /\ loader /\ Expired # {} /\ Live # {}
    /\ \E k \in Expired : \E r \in GetResults(k) : r.err = ErrNil /\ r.miss = 1

\* Set(k, v) immediately followed by Get(k): the results the Get may have
SetThenGet(k, v) ==
    {baseCache_Get(baseCache_Set(Engine, k, v, ord), k, lr, <<>>) :
        ord \in MapOrders(k), lr \in LoaderInputs(k, TRUE)}

\* C15: from every cache state, for every key k and value v, Set(k, v)
\* immediately followed by Get(k) returns v without invoking the loader.
C15_SetThenGet ==
    \A k \in KeysOf(tp) : \A v \in ValuesOf(k) : \A r \in SetThenGet(k, v) :
        r.err = ErrNil /\ r.value = v /\ r.loaded = 0

\* the engine as the next call finds it: the callbacks' records start empty
NextCall(c) == [c EXCEPT !.ev = <<>>, !.ad = <<>>, !.pv = <<>>]

\* C16: for every resident key k, Remove(k) returns true and fires the
\* evicted callback exactly once, with k and its value; a second Remove(k)
\* right after returns false, fires no callback and leaves the resident
\* entries as they were.
C16_RemoveTwice ==
    \A k \in KeysOf(tp) :
        LET r1 == cache_Remove(Engine, k)
            r2 == cache_Remove(NextCall(r1.c), k)
        IN /\ r1.ok <=> k \in DOMAIN items
           /\ k \in DOMAIN items =>
                  /\ r1.c.ev = << <<k, items[k].value>> >>
                  /\ DOMAIN r1.c.items = DOMAIN items \ {k}
                  /\ ~r1.c.fault
                  /\ ~r2.ok
                  /\ r2.c.ev = <<>>
                  /\ r2.c.items = r1.c.items
                  /\ ~r2.c.fault

\* a full cache, one of whose entries is expired: Remove of it acts
C16_Witness ==
    /\ Cardinality(DOMAIN items) = MaxSize
    /\ \E k \in Expired : cache_Remove(Engine, k).ok

\* the calls of the purge visitor made with key k
VisitsOf(pv, k) == {i \in 1..Len(pv) : pv[i][1] = k}

\* C17: Purge calls the purge visitor exactly once for each entry resident at
\* the call, with its key and value, and never the evicted callback; after
\* it Len(false) is 0 and no key is Existed; it moves neither counter.
C17_PurgeVisitsOnce ==
    \A ord \in Ranges(DOMAIN items) :
        LET p == baseCache_Purge(Engine, ord)
        IN /\ \A k \in AllKeys :
                  /\ Cardinality(VisitsOf(p.c.pv, k)) = IF k \in DOMAIN items THEN 1 ELSE 0
                  /\ \A i \in VisitsOf(p.c.pv, k) : p.c.pv[i] = <<k, items[k].value>>
                  /\ ~cache_Existed(p.c, k)
           /\ p.c.ev = <<>>
           /\ cache_Len(p.c, FALSE) = 0
           /\ p.hit = 0 /\ p.miss = 0
           /\ ~p.c.fault

\* a full cache holding an expired entry and a live one is purged
C17_Witness ==
    /\ Cardinality(DOMAIN items) = MaxSize /\ Expired # {} /\ Live # {}
    /\ \E ord \in Ranges(DOMAIN items) : Len(baseCache_Purge(Engine, ord).c.pv) = MaxSize

\* C18: after Purge the engine is as freshly built: in ARC T1, T2, B1 and B2
\* are empty and the partition parameter is 0; in LFU the bucket list is the
\* single bucket of frequency 0, with no items.
C18_PurgeResets ==
    \A ord \in Ranges(DOMAIN items) :
        LET c == cache_Purge(Engine, ord)
        IN /\ c.items = EmptyMap
           /\ tp = TypeArc =>
                  /\ c.t1 = <<>> /\ c.t2 = <<>> /\ c.b1 = <<>> /\ c.b2 = <<>>
                  /\ c.part = 0
           /\ tp = TypeLfu => c.freqList = <<freqEntry(0, {})>>

\* the engines Set(k, v) may leave, over the orders of an eviction scan
SetResults(k, v) == {baseCache_Set(Engine, k, v, ord) : ord \in MapOrders(k)}

\* C19 (as stated): a Set(k, v2) on a key resident with value v1 fires the
\* evicted callback for (k, v1).
C19_OverwriteEvicts ==
    \A k \in DOMAIN items : \A v \in ValuesOf(k) : \A c \in SetResults(k, v) :
        <<k, items[k].value>> \in SeqSet(c.ev)

\* C19 (amended): a Set(k, v2) on a resident key replaces the value in place
\* and fires the added callback for (k, v2), and no evicted callback; the
\* evicted callback is fired by a Set once for each entry it takes out of the
\* cache, with that entry's key and value.
C19_EvictedOnLeave ==
    \A k \in KeysOf(tp) : \A v \in ValuesOf(k) : \A c \in SetResults(k, v) :
        /\ k \in DOMAIN items =>
               /\ c.ev = <<>>
               /\ c.ad = << <<k, v>> >>
               /\ DOMAIN c.items = DOMAIN items
               /\ c.items[k].value = v
        /\ SeqSet(c.ev) = {<<j, items[j].value>> : j \in DOMAIN items \ DOMAIN c.items}
        /\ Len(c.ev) = Cardinality(DOMAIN items \ DOMAIN c.items)

\* a full cache with an expired entry: an overwrite and an eviction can happen
C19_Witness ==
    /\ Cardinality(DOMAIN items) = MaxSize /\ Expired # {}
    /\ \E k \in DOMAIN items : \E v \in ValuesOf(k) : v # items[k].value
    /\ \E k \in KeysOf(tp) \ DOMAIN items : \E v \in ValuesOf(k) :
           \E c \in SetResults(k, v) : c.ev # <<>>

\* the loader returns value v and a nil duration
NilDuration(v) == [v |-> v, exp |-> NoExp, e |-> ErrNil]

\* the results of the calls on k that reach the loader, when it returns a
\* nil duration
FillsWithNil(k) ==
    {baseCache_Refresh(Engine, k, NilDuration(v), ord) :
        v \in ValuesOf(k), ord \in MapOrders(k)}
    \cup {baseCache_Get(Engine, k, NilDuration(v), ord) :
        v \in IF ReadMisses(k) THEN ValuesOf(k) ELSE {}, ord \in MapOrders(k)}

\* C20: when the loader returns a nil duration, the entry it fills has no
\* expiration instant after the fill, whatever the cache's configuration
\* and the prior state of the key.
C20_NilNeverExpires ==
    loader => \A k \in KeysOf(tp) : \A r \in FillsWithNil(k) :
        (r.err = ErrNil /\ r.loaded = 1) =>
            /\ k \in DOMAIN r.c.items
            /\ r.c.items[k].expiration = NoExp

\* the reads of a resident, unexpired key k whose deserialize hook fails
FailedReads(k) ==
    {baseCache_GetHooked(Engine, k, NoLoad, <<>>, ErrDeserialize),
     baseCache_GetIFPresentHooked(Engine, k, NoLoad, <<>>, ErrDeserialize)}

\* C21: when the deserialize hook returns an error for a resident key, Get
\* and GetIFPresent both return that error to the caller.
C21_ErrorsSurface ==
    \A k \in Live : \A r \in FailedReads(k) : r.err = ErrDeserialize

\* the thread that registered the call thread t is in
LeaderOf(t) == calls[slot[t]].by
\* thread t is running, or has run, fn for its key
Leads(t) == slot[t] # 0 /\ LeaderOf(t) = t
\* the load of thread t has failed: the loader returned an error or panicked
Failed(t) == Leads(t) /\ ldr[t].e # ErrNil /\ pc[t] \in {"cb", "finish", "done"}

\* a failed load is returned as an error, to its caller and to every waiter,
\* and leaves the engine lock free; a slot is in the mapping only while its
\* leader is still inside Do; an entry is resident only by a load that
\* succeeded
C22_FailedLoadState ==
    /\ \A t \in Threads :
           /\ (pc[t] = "done" /\ slot[t] # 0 /\ Failed(LeaderOf(t))) => err[t] # ErrNil
           /\ Failed(t) => mu # t
    /\ \A k \in DOMAIN m :
           \E t \in Callers(k) :
               Leads(t) /\ slot[t] = m[k]
               /\ pc[t] \in {"load", "loading", "cb", "stamp", "set", "finish"}
    /\ \A t \in Threads :
           (pc[t] = "do" /\ \A u \in Callers(key[t]) : Leads(u) => pc[u] = "done")
           => ~Group_inFlight(m, key[t])
    /\ \A k \in DOMAIN items :
           \E t \in Callers(k) :
               Leads(t) /\ ldr[t].e = ErrNil /\ pc[t] \in {"stamp", "set", "finish", "done"}

\* the step in which the callback returns the loader's error changes no
\* entry and takes no lock
C22_FailedLoadStep ==
    \A t \in Threads :
        (pc[t] = "cb" /\ ldr[t].e # ErrNil /\ pc'[t] # "cb")
        => items' = items /\ UNCHANGED engVars /\ mu' = mu /\ err'[t] = ldr[t].e

\* C22: when the loader returns an error or panics for key k, the Get that
\* triggered it and every waiter return an error, no entry for k is inserted
\* and the resident entries are unchanged, the engine lock is not left held,
\* and the slot is removed, so that a later Get(k) invokes the loader again.
C22_FailedLoad == []C22_FailedLoadState /\ [][C22_FailedLoadStep]_vars

\* a load has panicked and returned an error, and a later call of the same
\* key is inside the loader again
C22_Witness ==
    \E t, u \in Threads :
        /\ t # u /\ key[t] = key[u]
        /\ pc[t] = "done" /\ Failed(t) /\ ldr[t].e = ErrPanic /\ err[t] = ErrPanic
        /\ pc[u] = "loading" /\ loads[key[u]] = 2 /\ mu = 0

C25_CancelledWaiter ==
    \A t \in Threads :
        (op[t] = "Get" /\ pc[t] = "done" /\ ctx[t]) => err[t] = ErrCanceled

\* from the call of the coordinator to its return, the loader included
InCoordinator == {"do", "load", "loading", "wait", "finish"}

\* no thread holds the engine lock inside the coordinator, where the loader
\* runs and the waiters block
C26_LockFreeLoad == \A t \in Threads : pc[t] \in InCoordinator => mu # t

AllDone == \A t \in Threads : pc[t] = "done"

\* C26: in every interleaving of Get, GetIFPresent, Refresh, Set,
\* SetWithExpire, Remove and Purge no thread holds the engine lock while the
\* loader runs or while it waits for a load in flight; with a loader and
\* callbacks that return, every call completes.
C26_NoDeadlock == []C26_LockFreeLoad /\ <>AllDone

\* a thread is inside the loader while another one holds the engine lock
C26_Witness ==
    \E t, u \in Threads : pc[t] = "loading" /\ mu = u /\ pc[u] = "written"

\* C27 (as stated): every callback runs while its thread holds the engine
\* lock; in particular the deserialize hook called by a Get hit does.
C27_HooksUnderLock == \A t \in Threads : pc[t] = "deserialize" => mu = t

\* the steps of thread t in which the added, evicted, purge-visitor and
\* serialize callbacks are called: getValue, the set of the load callback
\* and the writes
CallsBack(t) ==
    \/ pc[t] = "get" /\ pc'[t] = "got"
    \/ pc[t] = "cb" /\ pc'[t] \in {"stamp", "set"}
    \/ pc[t] = "write" /\ pc'[t] \in {"stamp", "written"}

\* such a step takes the free lock and keeps it past the callbacks, and no
\* other step changes the engine but the stamp of an expiration by the
\* thread that holds the lock
C27_LockedStep ==
    /\ \A t \in Threads : CallsBack(t) => mu = 0 /\ mu' = t
    /\ engVars' # engVars =>
           \E t \in Threads : CallsBack(t) \/ (pc[t] = "stamp" /\ mu = t /\ mu' = t)

\* C27 (amended): the added, evicted, purge-visitor and serialize callbacks
\* are called while the calling thread holds the engine lock; the
\* deserialize hook of a hit is called after getValue has released the
\* lock, by a thread that does not hold it.
C27_HooksButDeserialize ==
    [](\A t \in Threads : pc[t] = "deserialize" => mu # t) /\ [][C27_LockedStep]_vars

\* a thread has read the value another thread's Set wrote and is about to
\* run the deserialize hook on it, its lock released
C27_Witness ==
    \E t, u \in Threads :
        /\ pc[t] = "deserialize" /\ val[t] # NoVal /\ mu # t
        /\ op[u] \in {"Set", "SetWithExpire"} /\ pc[u] = "done"

\* the call that returned r has changed nothing, fired no callback and
\* moved no counter
Inspected(r) ==
    /\ r.c = Engine
    /\ r.c.items = items /\ r.c.part = part /\ r.c.freqList = freqList
    /\ r.c.ev = <<>> /\ r.c.ad = <<>> /\ r.c.pv = <<>>
    /\ r.hit = 0 /\ r.miss = 0

\* C28: Existed, Keys, Len and GetALL leave the resident entries, the ARC
\* lists and p, the LFU frequencies, the ghost lists and the hit and miss
\* counters as they were, fire no callback and do not remove an entry they
\* find expired.
C28_ReadsChangeNothing ==
    /\ \A k \in AllKeys : Inspected(cache_ExistedCall(Engine, k))
    /\ \A b \in BOOLEAN :
           /\ Inspected(cache_KeysCall(Engine, b))
           /\ Inspected(cache_GetALLCall(Engine, b))
           /\ Inspected(cache_LenCall(Engine, b))

\* an entry is resident and found expired by Existed and by Len(true)
C28_Witness ==
    \E k \in Expired :
        /\ ~cache_ExistedCall(Engine, k).value
        /\ cache_LenCall(Engine, TRUE).value < cache_LenCall(Engine, FALSE).value

\* the engines an insert of the key k, not resident, may leave: by Set, or by
\* the fill of a Get whose loader returns a value and no duration
Inserts(k) ==
    SetResults(k, CHOOSE v \in ValuesOf(k) : TRUE)
    \cup {baseCache_Get(Engine, k, NilDuration(v), ord).c :
              v \in IF loader THEN ValuesOf(k) ELSE {}, ord \in MapOrders(k)}

\* C29: in a Simple cache built with size 0, where no entry has an
\* expiration, Len(true) = Len(false) = the number of keys inserted, and an
\* insert of one more key keeps every entry and fires no evicted callback.
C29_UnboundedKeepsAll ==
    (tp = TypeSimple /\ size = 0 /\ expiration = NoExp /\ Expiring = {}) =>
        /\ cache_Len(Engine, TRUE) = Cardinality(DOMAIN items)
        /\ cache_Len(Engine, FALSE) = Cardinality(DOMAIN items)
        /\ \A k \in KeysOf(tp) \ DOMAIN items : \A c \in Inserts(k) :
               /\ c.ev = <<>>
               /\ DOMAIN c.items = DOMAIN items \cup {k}
               /\ \A j \in DOMAIN items : c.items[j] = items[j]
               /\ cache_Len(c, TRUE) = Cardinality(DOMAIN items) + 1

\* more keys than MaxSize are resident, none with an expiration
C29_Witness ==
    /\ tp = TypeSimple /\ size = 0 /\ expiration = NoExp /\ Expiring = {} /\ loader
    /\ Cardinality(DOMAIN items) = MaxSize
    /\ \E k \in KeysOf(tp) \ DOMAIN items : \E c \in Inserts(k) :
           cache_Len(c, FALSE) = MaxSize + 1

\* the callbacks through which entries left during a call that ended in the
\* engine c, and the entries still in it: evicted calls + purge-visitor calls
\* + Len(false)
Leaves(c) == Len(c.ev) + Len(c.pv) + cache_Len(c, FALSE)

\* the entries a call that set the key k has created: one when the key was
\* not in the items map, none when the resident item was overwritten
Created(c, k) == IF k \in DOMAIN c.items THEN 0 ELSE 1

\* every call keeps (entries created) = (evicted calls) + (purge-visitor
\* calls) + Len(false): what it adds to the right-hand side is the number of
\* entries it created
Accounted ==
    /\ \A k \in KeysOf(tp) : \A v \in ValuesOf(k) : \A ord \in MapOrders(k) :
           /\ Leaves(baseCache_Set(Engine, k, v, ord))
                  = cache_Len(Engine, FALSE) + Created(Engine, k)
           /\ \A d \in Durations :
                  Leaves(baseCache_SetWithExpire(Engine, k, v, d, ord))
                      = cache_Len(Engine, FALSE) + Created(Engine, k)
    /\ \A k \in KeysOf(tp) : \A ord \in MapOrders(k) :
           /\ \A lr \in LoaderInputs(k, ReadMisses(k)) :
                  LET r == baseCache_Get(Engine, k, lr, ord)
                  IN Leaves(r.c) = cache_Len(Engine, FALSE)
                                   + (IF r.loaded = 1 /\ lr.e = ErrNil THEN 1 ELSE 0)
           /\ \A lr \in LoaderInputs(k, TRUE) :
                  LET r == baseCache_Refresh(Engine, k, lr, ord)
                  IN Leaves(r.c) = cache_Len(Engine, FALSE)
                                   + (IF r.loaded = 1 /\ lr.e = ErrNil
                                      THEN Created(Engine, k) ELSE 0)
    /\ \A k \in KeysOf(tp) : Leaves(cache_Remove(Engine, k).c) = cache_Len(Engine, FALSE)
    /\ \A ord \in Ranges(DOMAIN items) :
           Leaves(baseCache_Purge(Engine, ord).c) = cache_Len(Engine, FALSE)

RECURSIVE Invocations(_)
\* the loader invocations counted for the keys of S
Invocations(S) ==
    IF S = {} THEN 0
    ELSE LET k == CHOOSE j \in S : TRUE IN loads[k] + Invocations(S \ {k})

\* every thread has made a Get that missed in the engine, went to the load
\* coordinator and returned a value
AllGetsMissed ==
    \A t \in Threads : op[t] = "Get" /\ pc[t] = "done" /\ slot[t] # 0 /\ err[t] = ErrNil

C31_SetRecomputes ==
    \A k \in DOMAIN items : \A v \in ValuesOf(k) : \A c \in SetResults(k, v) :
        /\ k \in DOMAIN c.items
        /\ c.items[k].value = v
        /\ c.items[k].expiration =
               (IF expiration # NoExp THEN now + expiration ELSE NoExp)

\* thread t takes the engine lock for an insert in this step: the set of a
\* Set or SetWithExpire, or the set of the load callback
InsertsNow(t) ==
    \/ pc[t] = "write" /\ pc'[t] \in {"stamp", "written"}
    \/ pc[t] = "cb" /\ pc'[t] \in {"stamp", "set"}

\* thread t has made an insert: a Set or SetWithExpire that returned, or a
\* Get that missed and whose load set the loader's value
HasInserted(t) ==
    \/ op[t] \in {"Set", "SetWithExpire"} /\ pc[t] = "done"
    \/ op[t] = "Get" /\ pc[t] = "done" /\ Leads(t) /\ ldr[t].e = ErrNil

\* the values of the resident entries
ValuesIn(its) == [k \in DOMAIN its |-> its[k].value]

\* an insert takes the free lock and leaves its own value under the key; no
\* other step changes which keys are resident or their values; a read takes
\* the lock only while no insert is between its set and its stamp
C32_OrderedStep ==
    /\ \A t \in Threads :
           InsertsNow(t) =>
               /\ mu = 0 /\ mu' = t
               /\ key[t] \in DOMAIN items'
               /\ items'[key[t]].value = val'[t]
    /\ ValuesIn(items') # ValuesIn(items) => \E t \in Threads : InsertsNow(t)
    /\ \A t \in Threads :
           (pc[t] = "get" /\ pc'[t] = "got") => \A u \in Threads : pc[u] # "stamp"

\* an insert that has set its value and not yet its expiration holds the
\* engine lock; when every call has returned and one of them has inserted,
\* the key is resident with the value of one of the inserts
C32_OrderedState ==
    /\ \A t \in Threads : pc[t] = "stamp" => mu = t
    /\ (AllDone /\ \E t \in Threads : HasInserted(t)) =>
           \A k \in OrderKeys :
               /\ k \in DOMAIN items
               /\ \E t \in Threads : HasInserted(t) /\ items[k].value = val[t]

\* C32: operations on one key take effect in the order in which their engine
\* locks are acquired: when a Set(k, v1) runs concurrently with a Get(k) that
\* missed and whose loader returns v0, after both k is resident with the
\* value of the insert that took the lock last; and the value and the
\* expiration of a SetWithExpire or of a loader fill are never seen half
\* inserted by another thread.
C32_LockOrder == []C32_OrderedState /\ [][C32_OrderedStep]_vars

\* a Set and a missed Get of the same key have both returned, with different
\* values, and the loader's value is the resident one: the load callback took
\* the lock after the Set
C32_Witness ==
    \E t, u \in Threads :
        /\ op[t] = "Set" /\ op[u] = "Get" /\ key[t] = key[u]
        /\ HasInserted(t) /\ HasInserted(u)
        /\ val[t] # val[u]
        /\ key[u] \in DOMAIN items /\ items[key[u]].value = val[u]
        /\ items[key[u]].expiration # NoExp

\* |T1| + |T2| + |B1| + |B2|
arcTotal(c) == Len(c.t1) + Len(c.t2) + Len(c.b1) + Len(c.b2)

\* the engine read of k has left c: k is at the front of the list l of c
AtFront(l, k) == Len(l) > 0 /\ l[1] = k

\* C33: in ARC a Get hit on an unexpired key in T1 removes it from T1 and
\* puts it at the front of T2; a hit on an unexpired key in T2 moves it to
\* the front of T2; a Get on an expired key in T1 (in T2) removes the entry
\* and puts the key at the front of B1 (of B2); the read never changes p nor
\* |T1| + |T2| + |B1| + |B2|.
C33_ArcGet ==
    tp = TypeArc =>
        \A k \in KeysOf(tp) :
            LET r == arcCache_getValue(Engine, k, FALSE)
                c == r.c
            IN /\ c.part = part
               /\ arcTotal(c) = arcTotal(Engine)
               /\ (arcList_Has(t1, k) /\ k \in Live) =>
                      /\ r.err = ErrNil /\ r.value = items[k].value
                      /\ ~arcList_Has(c.t1, k) /\ c.t1 = Without(t1, k)
                      /\ AtFront(c.t2, k) /\ c.t2 = <<k>> \o t2
                      /\ c.items = items /\ c.b1 = b1 /\ c.b2 = b2
               /\ (arcList_Has(t2, k) /\ k \in Live) =>
                      /\ r.err = ErrNil /\ r.value = items[k].value
                      /\ AtFront(c.t2, k) /\ c.t2 = <<k>> \o Without(t2, k)
                      /\ c.items = items /\ c.t1 = t1 /\ c.b1 = b1 /\ c.b2 = b2
               /\ (arcList_Has(t1, k) /\ k \in Expired) =>
                      /\ r.err = ErrKeyNotFound
                      /\ k \notin DOMAIN c.items /\ c.t1 = Without(t1, k)
                      /\ AtFront(c.b1, k) /\ c.b1 = <<k>> \o b1
                      /\ c.t2 = t2 /\ c.b2 = b2
               /\ (arcList_Has(t2, k) /\ k \in Expired) =>
                      /\ r.err = ErrKeyNotFound
                      /\ k \notin DOMAIN c.items /\ c.t2 = Without(t2, k)
                      /\ AtFront(c.b2, k) /\ c.b2 = <<k>> \o b2
                      /\ c.t1 = t1 /\ c.b1 = b1

\* a full ARC cache holds an expired key in T1 and an expired key in T2, next
\* to ghosts
C33_Witness ==
    /\ tp = TypeArc /\ Len(b1) + Len(b2) > 0
    /\ \E j, k \in Expired : arcList_Has(t1, j) /\ arcList_Has(t2, k)

\* the frequency of the bucket in which the engine c keeps the resident key k
lfuFreq(c, k) == c.freqList[c.items[k].freqElement].freq

\* C34: in LFU the bucket list is sorted strictly ascending by frequency with
\* a bucket of frequency 0 at the front, and every resident item sits in the
\* bucket whose frequency is the number of successful read hits on it since it
\* was inserted: a hit moves the item from frequency f to a bucket of
\* frequency exactly f + 1, and an overwriting Set leaves its frequency
\* unchanged.
C34_LfuBuckets ==
    tp = TypeLfu =>
        /\ Len(freqList) >= 1 /\ freqList[1].freq = 0
        /\ \A i, j \in 1..Len(freqList) : i < j => freqList[i].freq < freqList[j].freq
        /\ \A k \in DOMAIN items :
               /\ items[k].freqElement \in 1..Len(freqList)
               /\ k \in freqList[items[k].freqElement].items
               /\ lfuFreq(Engine, k) = hits[k]
        /\ \A k \in Live :
               LET r == lfuCache_getValue(Engine, k, FALSE)
               IN /\ r.err = ErrNil
                  /\ lfuFreq(r.c, k) = lfuFreq(Engine, k) + 1
                  /\ k \in r.c.freqList[r.c.items[k].freqElement].items
                  /\ \A j \in DOMAIN items \ {k} : lfuFreq(r.c, j) = lfuFreq(Engine, j)
        /\ \A k \in DOMAIN items : \A v \in ValuesOf(k) : \A c \in SetResults(k, v) :
               \A j \in DOMAIN items : j \in DOMAIN c.items /\ lfuFreq(c, j) = lfuFreq(Engine, j)

\* a full LFU cache holds a key read MaxFreq times and a key never read, an
\* emptied bucket between them
C34_Witness ==
    /\ tp = TypeLfu /\ Cardinality(DOMAIN items) = size
    /\ \E j, k \in DOMAIN items :
           /\ hits[j] = 0 /\ hits[k] = MaxFreq
           /\ \E i \in 1..Len(freqList) : freqList[i].items = {} /\ freqList[i].freq = 1
    /\ \E k \in Live : hits[k] = 0

\* the entries that an insert which left the engine c has removed
RemovedBy(c) == DOMAIN items \ DOMAIN c.items

\* the keys of the order ord that are in S, in that order
FirstOf(ord, S) == SelectSeq(ord, LAMBDA j : j \in S)

\* the keys whose insert into a Simple cache runs the eviction scan: those
\* not resident, when the cache holds N > 0 entries or more (simple.go:45)
SimpleInserts == {k \in KeysOf(tp) \ DOMAIN items :
                     tp = TypeSimple /\ size > 0 /\ Cardinality(DOMAIN items) >= size}

\* C35 (as stated): when a Simple cache at capacity (N > 0) inserts a new key
\* while at least one resident entry is expired, the entry it removes is an
\* expired one, for every iteration order of the map.
C35_EvictsExpired ==
    \A k \in SimpleInserts : \A v \in ValuesOf(k) : \A ord \in MapOrders(k) :
        (Expired # {} /\ Cardinality(DOMAIN items) = size) =>
            LET c == SimpleCache_set(Engine, k, v, ord)
            IN RemovedBy(c) # {} /\ RemovedBy(c) \subseteq Expired

\* C35 (amended): the insert removes the first entry in iteration order that
\* has no expiration or whose expiration has passed, expired or not; an entry
\* whose expiration is still ahead is never removed, and when every entry is
\* such nothing is removed.
C35_EvictsFirstEvictable ==
    \A k \in SimpleInserts : \A v \in ValuesOf(k) : \A ord \in MapOrders(k) :
        LET c == SimpleCache_set(Engine, k, v, ord)
            takes == FirstOf(ord, (DOMAIN items \ Expiring) \cup Expired)
        IN /\ RemovedBy(c) = IF takes = <<>> THEN {} ELSE {takes[1]}
           /\ Len(c.ev) = Cardinality(RemovedBy(c))
           /\ k \in DOMAIN c.items

\* at capacity an expired entry is resident next to one without expiration,
\* and in some iteration order the insert removes the latter
C35_Witness ==
    /\ Expired # {} /\ DOMAIN items \ Expiring # {} /\ Cardinality(DOMAIN items) = size
    /\ \E k \in SimpleInserts : \E ord \in MapOrders(k) :
           RemovedBy(SimpleCache_set(Engine, k, 3, ord)) \cap Expired = {}

\* the engines that the calls on key k may leave an ARC cache in: Set,
\* SetWithExpire, the engine read, Get with its load, Refresh and Remove
ArcCalls(k) ==
    {arcCache_set(Engine, k, v) : v \in ValuesOf(k)}
    \cup {baseCache_SetWithExpire(Engine, k, v, d, <<>>) : v \in ValuesOf(k), d \in Durations}
    \cup {arcCache_getValue(Engine, k, onLoad).c : onLoad \in BOOLEAN}
    \cup {baseCache_Get(Engine, k, lr, <<>>).c : lr \in LoaderInputs(k, ReadMisses(k))}
    \cup {baseCache_Refresh(Engine, k, lr, <<>>).c : lr \in LoaderInputs(k, TRUE)}
    \cup {arcCache_remove(Engine, k).c}

\* C36: no ARC operation faults in any reachable state, those reached through
\* Remove and expired reads included: set and replace never call RemoveTail
\* on an empty list, the divisions |B2|/|B1| and |B1|/|B2| never divide by
\* zero, and every key that get or remove finds in T1 or T2 has an entry in
\* the items map.
C36_ArcNeverFaults ==
    tp = TypeArc =>
        /\ ~fault
        /\ SeqSet(t1) \cup SeqSet(t2) \subseteq DOMAIN items
        \* the divisor is the length of the ghost list the key was found in
        /\ \A k \in KeysOf(tp) : /\ arcList_Has(b1, k) => Len(b1) # 0
                                 /\ arcList_Has(b2, k) => Len(b2) # 0
        /\ \A k \in KeysOf(tp) : \A c \in ArcCalls(k) : ~c.fault
        /\ \A ord \in Ranges(DOMAIN items) : ~baseCache_Purge(Engine, ord).c.fault

\* a full ARC cache in which Remove or an expired read has left
\* |T1| + |B1| above the capacity, an expired entry resident: a ghost of B1
\* is set again, and replace evicts for it
C36_Witness ==
    /\ tp = TypeArc /\ arcCache_isCacheFull(Engine)
    /\ Len(t1) + Len(b1) > size /\ Expired # {}
    /\ \E k \in SeqSet(b1) :
           LET c == arcCache_set(Engine, k, 1)
           IN ~c.fault /\ Len(c.ev) = 1 /\ arcList_Has(c.t2, k)

====
